---- MODULE Spec2Model ----
(***************************************************************************)
(* Zobbo: the per-room game engine and session protocol of                 *)
(* src/backend/src/main.rs.                                                *)
(*                                                                         *)
(* Spec      the game engine: one action per client-action handler, each   *)
(*           handler run to completion (its own mutation, its broadcasts   *)
(*           and the end_turn_common / reveal_and_finish it calls).        *)
(*           The initial states are the GameStates start_game builds.      *)
(* SpecConc  the same handlers as the connection tasks run them: a step    *)
(*           is one hold of the game lock, so the end_turn_common a        *)
(*           handler ends with is a step of its own.                       *)
(* SpecLobby the room before the game: join_room, the connection tasks'    *)
(*           attach and detach, and on_player_ready with the room's        *)
(*           players and started mutexes.                                  *)
(* SpecScore the last turn of a called Zobbo, from every pair of hands of  *)
(*           a small set of cards: end_turn_common and the reveal.         *)
(***************************************************************************)
EXTENDS Integers, Sequences, FiniteSets, TLC

\* ------------------------------------------------------------------ bounds
\* Slots per seat (the source deals 6; the pack below is cut down with it).
NumSlots == 1
\* Slot versions are u64 counters; handlers that would bump a version past
\* this cap are not explored.
MaxVersion == 2
\* Client actions explored: a run holds at most this many accepted actions.
MaxCalls == 5
\* The same, where the steps of concurrent handlers interleave (SpecConc).
MaxConcCalls == 3
\* Connection tasks of the room.
NumConns == 3
\* Slots per seat where the reveal is applied to arbitrary hands (SpecScore).
ScoreSlots == 2

\* Cuts of the 52-card deck taken as shuffles.
NumCuts == 26

\* ------------------------------------------------------------ cards (Rank)
Ace == 1
Two == 2
Three == 3
Four == 4
Five == 5
Six == 6
Seven == 7
Eight == 8
Nine == 9
Ten == 10
Jack == 11
Queen == 12
King == 13

Ranks == Ace..King

Suits == {"Clubs", "Diamonds", "Hearts", "Spades"}

is_red(suit) == suit \in {"Diamonds", "Hearts"}

Card(r, s) == [rank |-> r, suit |-> s]

\* Option<Card>::None of a seat slot.
NoCard == [rank |-> 0, suit |-> "none"]

\* build_deck pushes every suit x rank pair.  The model cuts the pack down to
\* small packs that between them hold a card of every behaviour class of the
\* engine: a plain rank, a rank of each power (5-8, 9-10, Jack, Queen), and
\* both colours of King; each pack holds one rank twice, for match_top.
Packs ==
  { { Card(Four, "Spades"), Card(Jack, "Clubs"),
      Card(King, "Hearts"), Card(King, "Spades") },
    { Card(Five, "Clubs"), Card(Nine, "Diamonds"),
      Card(Queen, "Hearts"), Card(Queen, "Spades") } }

\* The two players of a game.
PlayerIds == {"p1", "p2"}

\* The ids join_room can hand out: one more than a room has places.
Uuids == PlayerIds \cup {"p3"}

SlotIdx == 0..(NumSlots - 1)

\* Indices a client can send: every slot and one index past the end.
ClientIdx == 0..NumSlots

VARIABLES
  game,      \* room.game: <<>> (None) or <<GameState>>
  players,   \* room.players: player id -> PlayerRecord
  started,   \* room.started
  conn,      \* the connection tasks: where each is in handle_socket, and for whom
  locks,     \* holder of room.players' and room.started's mutex (0: free)
  ret,       \* result of the last handler call: "Ok", "Err" ("none" at start)
  sent,      \* messages the last step queued, per player channel
  ended,     \* the end_turn_common of the last step: "none", "next" or "skip"
  calls      \* number of handler calls that returned Ok so far

vars == <<game, players, started, conn, locks, ret, sent, ended, calls>>

\* ----------------------------------------------------------------- helpers
Last(s) == s[Len(s)]

Front(s) == SubSeq(s, 1, Len(s) - 1)

Range(s) == {s[i] : i \in 1..Len(s)}

RECURSIVE Perms(_)
\* slice::shuffle: every order of the cards.
Perms(S) ==
  IF S = {} THEN {<<>>}
  ELSE UNION {{Append(p, x) : p \in Perms(S \ {x})} : x \in S}

NoMsgs == [p \in Uuids |-> <<>>]

Other(pid) == CHOOSE q \in PlayerIds : q /= pid

\* -------------------------------------------------------------- game helpers
\* rank_points scoring every King 13.
rank_points_any_king(c) ==
  CASE c.rank = Ace -> 1
    [] c.rank = Two -> 2
    [] c.rank = Three -> 3
    [] c.rank = Four -> 4
    [] c.rank = Five -> 5
    [] c.rank = Six -> 6
    [] c.rank = Seven -> 7
    [] c.rank = Eight -> 8
    [] c.rank = Nine -> 9
    [] c.rank = Ten -> 10
    [] c.rank = Jack -> 11
    [] c.rank = Queen -> 12
    [] c.rank = King -> 13

rank_points(c) ==
  CASE c.rank = Ace -> 1
    [] c.rank = Two -> 2
    [] c.rank = Three -> 3
    [] c.rank = Four -> 4
    [] c.rank = Five -> 5
    [] c.rank = Six -> 6
    [] c.rank = Seven -> 7
    [] c.rank = Eight -> 8
    [] c.rank = Nine -> 9
    [] c.rank = Ten -> 10
    [] c.rank = Jack -> 11
    [] c.rank = Queen -> 12
    [] c.rank = King -> IF is_red(c.suit) THEN 13 ELSE 0

card_public(c) ==
  [rank |-> c.rank, is_red_king |-> (c.rank = King /\ is_red(c.suit))]

card_public_full(c) == [rank |-> c.rank, suit |-> c.suit]

\* The set of GameStates ensure_deck can leave: the refilled deck is shuffled.
\* ensure_deck shuffling the whole discard pile back, its top included.
ensure_deck_with_top(g) ==
  IF Len(g.deck) = 0 /\ Len(g.discard) > 1
  THEN {[g EXCEPT !.deck = d, !.discard = <<>>] : d \in Perms(Range(g.discard))}
  ELSE {g}

ensure_deck(g) ==
  IF Len(g.deck) = 0 /\ Len(g.discard) > 1
  THEN LET top == Last(g.discard)
           rest == Front(g.discard)
       IN {[g EXCEPT !.deck = d, !.discard = <<top>>] : d \in Perms(Range(rest))}
  ELSE {g}

\* Outcomes of draw_from_deck: the GameState left and the Option<Card> popped.
draw_from_deck(g) ==
  { IF Len(g2.deck) = 0
    THEN [g |-> g2, card |-> <<>>]
    ELSE [g |-> [g2 EXCEPT !.deck = Front(g2.deck)], card |-> <<Last(g2.deck)>>]
    : g2 \in ensure_deck(g) }

opponent_of(g, me) == Other(me)

\* next_player finding the active seat itself.
next_player_active(g) == g.active

next_player(g) == Other(g.active)

\* compose_seat_public with the slot's rank in the public slot.
compose_seat_public_with_rank(seat) ==
  [i \in DOMAIN seat.slots |->
     [empty |-> (seat.slots[i] = NoCard), version |-> seat.versions[i],
      rank |-> seat.slots[i].rank]]

compose_seat_public(seat) ==
  [i \in DOMAIN seat.slots |->
     [empty |-> (seat.slots[i] = NoCard), version |-> seat.versions[i]]]

StageName(stage) ==
  CASE stage.kind = "AwaitDraw" -> "await_draw"
    [] stage.kind = "Holding" -> "holding"
    [] stage.kind = "Power" -> "power"

compose_update_for(g, pid) ==
  [ you |-> compose_seat_public(g.seats[pid]),
    opponent |-> compose_seat_public(g.seats[opponent_of(g, pid)]),
    active |-> g.active,
    stage |-> StageName(g.stage),
    discard_top |-> IF Len(g.discard) = 0 THEN <<>> ELSE <<card_public(Last(g.discard))>>,
    deck_count |-> Len(g.deck),
    discard_count |-> Len(g.discard),
    zobbo_remaining |-> IF g.zobbo = <<>> THEN <<>> ELSE <<g.zobbo[1].remaining>> ]

\* send_to: queue msg on the player's channel when the record holds one.
send_to(out, pid, msg) ==
  IF pid \in DOMAIN players /\ players[pid].tx /= 0
  THEN [out EXCEPT ![pid] = Append(@, msg)]
  ELSE out

\* broadcast_game_update: each player's own projection of the same GameState.
broadcast_game_update(out, g) ==
  [p \in Uuids |->
     IF p \in DOMAIN players /\ players[p].tx /= 0
     THEN Append(out[p], [type |-> "game_update", update |-> compose_update_for(g, p)])
     ELSE out[p]]

RECURSIVE SumPoints(_, _)
SumPoints(seat, n) ==
  IF n = 0 THEN 0
  ELSE SumPoints(seat, n - 1)
       + (IF seat.slots[n - 1] = NoCard THEN 0 ELSE rank_points(seat.slots[n - 1]))

RECURSIVE RevealCards(_, _)
RevealCards(seat, n) ==
  IF n = 0 THEN <<>>
  ELSE IF seat.slots[n - 1] = NoCard THEN RevealCards(seat, n - 1)
  ELSE Append(RevealCards(seat, n - 1), card_public_full(seat.slots[n - 1]))

\* seat.slots.len()
SeatLen(seat) == Cardinality(DOMAIN seat.slots)

GameOverFor(g, me) ==
  LET opp == Other(me)
      score_me == SumPoints(g.seats[me], SeatLen(g.seats[me]))
      score_opp == SumPoints(g.seats[opp], SeatLen(g.seats[opp]))
  IN [ type |-> "game_over",
       your_score |-> score_me,
       opp_score |-> score_opp,
       you_cards |-> RevealCards(g.seats[me], SeatLen(g.seats[me])),
       opp_cards |-> RevealCards(g.seats[opp], SeatLen(g.seats[opp])),
       winner |-> IF score_me < score_opp THEN <<me>>
                  ELSE IF score_opp < score_me THEN <<opp>> ELSE <<>> ]

\* reveal_and_finish sending b the message it built for a.
reveal_and_finish_unmirrored(out, g) ==
  LET a == CHOOSE p \in PlayerIds : TRUE
      b == Other(a)
  IN send_to(send_to(out, a, GameOverFor(g, a)), b, GameOverFor(g, a))

reveal_and_finish(out, g) ==
  LET a == CHOOSE p \in PlayerIds : TRUE
      b == Other(a)
  IN send_to(send_to(out, a, GameOverFor(g, a)), b, GameOverFor(g, b))

\* end_turn_common skipping on any member of skip_next, the active seat's
\* included, and clearing it.
end_turn_common_any_seat(out, g) ==
  LET next == next_player(g)
      skipped == g.skip_next /= {}
      g1 == [g EXCEPT !.skip_next = {},
                      !.active = IF skipped THEN g.active ELSE next,
                      !.stage = [kind |-> "AwaitDraw"],
                      !.zobbo = IF @ = <<>> THEN <<>>
                                ELSE <<[@[1] EXCEPT !.remaining =
                                          IF @ > 0 THEN @ - 1 ELSE @]>>]
      zobbo_done == g1.zobbo /= <<>> /\ g1.zobbo[1].remaining = 0
      out1 == broadcast_game_update(out, g1)
  IN [ g |-> g1,
       out |-> IF zobbo_done THEN reveal_and_finish(out1, g1) ELSE out1,
       turn |-> IF skipped THEN "skip" ELSE "next" ]

\* end_turn_common on GameState g with the messages queued so far: the
\* branch it took on skip_next ("skip": the next seat was in it), the
\* GameState it leaves and the messages after its broadcast (and reveal).
end_turn_common(out, g) ==
  LET next == next_player(g)
      skipped == next \in g.skip_next
      g1 == [g EXCEPT !.skip_next = @ \ {next},
                      !.active = IF skipped THEN g.active ELSE next,
                      !.stage = [kind |-> "AwaitDraw"],
                      !.zobbo = IF @ = <<>> THEN <<>>
                                ELSE <<[@[1] EXCEPT !.remaining =
                                          IF @ > 0 THEN @ - 1 ELSE @]>>]
      zobbo_done == g1.zobbo /= <<>> /\ g1.zobbo[1].remaining = 0
      out1 == broadcast_game_update(out, g1)
  IN [ g |-> g1,
       out |-> IF zobbo_done THEN reveal_and_finish(out1, g1) ELSE out1,
       turn |-> IF skipped THEN "skip" ELSE "next" ]

\* build_deck: a pack, shuffled.
build_deck == UNION {Perms(pack) : pack \in Packs}

\* The body of start_game dealing both seats from the same end of the deck,
\* without popping the first seat's cards.
DealShared(deck, a, slots, starting) ==
  LET n == Len(deck)
  IN [ deck |-> SubSeq(deck, 1, n - 2 * slots),
       discard |-> <<>>,
       seats |-> [p \in PlayerIds |->
                    [ slots |-> [i \in 0..(slots - 1) |-> deck[n - i]],
                      versions |-> [i \in 0..(slots - 1) |-> 0] ]],
       active |-> starting,
       stage |-> [kind |-> "AwaitDraw"],
       skip_next |-> {},
       zobbo |-> <<>> ]

\* The body of start_game for a shuffled deck, a the first id get_both_ids
\* returned and `slots` cards per seat: each seat is dealt from the end of
\* the deck (deck.pop()), a's seat first.
Deal(deck, a, slots, starting) ==
  LET n == Len(deck)
  IN [ deck |-> SubSeq(deck, 1, n - 2 * slots),
       discard |-> <<>>,
       seats |-> [p \in PlayerIds |->
                    [ slots |-> [i \in 0..(slots - 1) |->
                                   deck[n - (IF p = a THEN 0 ELSE slots) - i]],
                      versions |-> [i \in 0..(slots - 1) |-> 0] ]],
       active |-> starting,
       stage |-> [kind |-> "AwaitDraw"],
       skip_next |-> {},
       zobbo |-> <<>> ]

\* start_game: the GameStates it can build for starting player `starting`.
start_game(starting) ==
  { Deal(deck, a, NumSlots, starting) : deck \in build_deck, a \in PlayerIds }

\* ---------------------------------------------------------- action handlers
\* Each handler is the set of its outcomes on the room's GameState: Err, or Ok
\* with the GameState it leaves when it drops the game lock, the messages it
\* queued up to there, and whether it goes on to call end_turn_common.
Err == [ret |-> "Err"]

\* Err returned after the handler has written to the GameState: g is what it
\* leaves.
ErrAfter(g) == [ret |-> "Err", g |-> g]

Ok(g, out, end) == [ret |-> "Ok", g |-> g, out |-> out, end |-> end]

is_active(pid) == game /= <<>> /\ game[1].active = pid

SetSlot(g, pid, index, c) == [g EXCEPT !.seats[pid].slots[index] = c]

BumpVersion(g, pid, index) == [g EXCEPT !.seats[pid].versions[index] = @ + 1]

\* handle_draw reading the discard top (last) where the source pops it.
handle_draw_copy_top(pid, src) ==
  IF game = <<>> THEN {Err}
  ELSE LET g == game[1] IN
    IF g.active /= pid THEN {Err}
    ELSE IF g.stage.kind /= "AwaitDraw" THEN {Err}
    ELSE LET drawn == IF src = "Deck" THEN draw_from_deck(g)
                      ELSE { IF Len(g.discard) = 0 THEN [g |-> g, card |-> <<>>]
                             ELSE [g |-> g,
                                   card |-> <<Last(g.discard)>>] }
         IN { IF d.card = <<>> THEN Err
              ELSE LET card == d.card[1]
                       g1 == [d.g EXCEPT !.stage =
                                [kind |-> "Holding", card |-> card, from |-> src]]
                       out == send_to(NoMsgs, pid,
                                [type |-> "drawn_card", card |-> card_public(card)])
                   IN Ok(g1, broadcast_game_update(out, g1), FALSE)
              : d \in drawn }

handle_draw(pid, src) ==
  IF game = <<>> THEN {Err}
  ELSE LET g == game[1] IN
    IF g.active /= pid THEN {Err}
    ELSE IF g.stage.kind /= "AwaitDraw" THEN {Err}
    ELSE LET drawn == IF src = "Deck" THEN draw_from_deck(g)
                      ELSE { IF Len(g.discard) = 0 THEN [g |-> g, card |-> <<>>]
                             ELSE [g |-> [g EXCEPT !.discard = Front(@)],
                                   card |-> <<Last(g.discard)>>] }
         IN { IF d.card = <<>> THEN Err
              ELSE LET card == d.card[1]
                       g1 == [d.g EXCEPT !.stage =
                                [kind |-> "Holding", card |-> card, from |-> src]]
                       out == send_to(NoMsgs, pid,
                                [type |-> "drawn_card", card |-> card_public(card)])
                   IN Ok(g1, broadcast_game_update(out, g1), FALSE)
              : d \in drawn }

\* handle_swap_with_hand entering Power on the replaced card, as a discard
\* of a drawn card would, in place of ending the turn.
handle_swap_with_hand_power(pid, index) ==
  IF game = <<>> THEN {Err}
  ELSE LET g == game[1] IN
    IF g.active /= pid THEN {Err}
    ELSE IF g.stage.kind /= "Holding" THEN {Err}
    ELSE IF index >= NumSlots THEN {Err}
    ELSE IF g.seats[pid].slots[index] = NoCard THEN {Err}
    ELSE LET replaced == g.seats[pid].slots[index]
             g1 == [BumpVersion(SetSlot(g, pid, index, g.stage.card), pid, index)
                      EXCEPT !.discard = Append(@, replaced),
                             !.stage = [kind |-> "Power", card |-> replaced]]
         IN {Ok(g1, broadcast_game_update(NoMsgs, g1), FALSE)}

handle_swap_with_hand(pid, index) ==
  IF game = <<>> THEN {Err}
  ELSE LET g == game[1] IN
    IF g.active /= pid THEN {Err}
    ELSE IF g.stage.kind /= "Holding" THEN {Err}
    ELSE IF index >= NumSlots THEN {Err}
    ELSE IF g.seats[pid].slots[index] = NoCard THEN {Err}
    ELSE LET replaced == g.seats[pid].slots[index]
             g1 == [BumpVersion(SetSlot(g, pid, index, g.stage.card), pid, index)
                      EXCEPT !.discard = Append(@, replaced),
                             !.stage = [kind |-> "AwaitDraw"]]
         IN {Ok(g1, broadcast_game_update(NoMsgs, g1), TRUE)}

handle_discard_drawn(pid) ==
  IF game = <<>> THEN {Err}
  ELSE LET g == game[1] IN
    IF g.active /= pid THEN {Err}
    ELSE IF g.stage.kind /= "Holding" THEN {Err}
    ELSE LET holding_card == g.stage.card
             from == g.stage.from
             g0 == [g EXCEPT !.discard = Append(@, holding_card)]
             power_allowed == from = "Deck" /\ holding_card.rank \in Five..King
             gp == [g0 EXCEPT !.stage = [kind |-> "Power", card |-> holding_card]]
             ga == [g0 EXCEPT !.stage = [kind |-> "AwaitDraw"]]
         IN IF power_allowed /\ holding_card.rank /= King
            THEN {Ok(gp, broadcast_game_update(NoMsgs, gp), FALSE)}
            ELSE IF holding_card.rank = King /\ is_red(holding_card.suit)
            THEN {Ok(gp, broadcast_game_update(NoMsgs, gp), FALSE)}
            ELSE {Ok(ga, broadcast_game_update(NoMsgs, ga), TRUE)}

\* handle_match_top clearing the slot on a wrong rank as well.
handle_match_top_wrong_clears(pid, index) ==
  IF game = <<>> THEN {Err}
  ELSE LET g == game[1] IN
    IF Len(g.discard) = 0 THEN {Err}
    ELSE IF index >= NumSlots THEN {Err}
    ELSE LET c == g.seats[pid].slots[index]
         IN IF c = NoCard THEN {Err}
            ELSE LET g0 == BumpVersion(SetSlot(g, pid, index, NoCard), pid, index)
                     g1 == IF c.rank = Last(g.discard).rank THEN g0
                           ELSE [g0 EXCEPT !.skip_next = @ \cup {pid}]
                 IN {Ok(g1, broadcast_game_update(NoMsgs, g1), FALSE)}

handle_match_top(pid, index) ==
  IF game = <<>> THEN {Err}
  ELSE LET g == game[1] IN
    IF Len(g.discard) = 0 THEN {Err}
    ELSE IF index >= NumSlots THEN {Err}
    ELSE LET top_rank == Last(g.discard).rank
             c == g.seats[pid].slots[index]
         IN IF c = NoCard THEN {Err}
            ELSE IF c.rank = top_rank
            THEN LET g1 == BumpVersion(SetSlot(g, pid, index, NoCard), pid, index)
                 IN {Ok(g1, broadcast_game_update(NoMsgs, g1), FALSE)}
            ELSE LET g1 == [g EXCEPT !.skip_next = @ \cup {pid}]
                 IN {Ok(g1, broadcast_game_update(NoMsgs, g1), FALSE)}

\* handle_call_zobbo without the is_none test on zobbo.
handle_call_zobbo_reset(pid) ==
  IF game = <<>> THEN {Err}
  ELSE LET g == game[1] IN
    IF g.stage.kind /= "AwaitDraw" THEN {Err}
    ELSE IF g.active = pid THEN {Err}
    ELSE LET g1 == [g EXCEPT !.zobbo = <<[caller |-> pid, remaining |-> 2]>>]
         IN {Ok(g1, broadcast_game_update(NoMsgs, g1), FALSE)}

handle_call_zobbo(pid) ==
  IF game = <<>> THEN {Err}
  ELSE LET g == game[1] IN
    IF g.stage.kind /= "AwaitDraw" THEN {Err}
    ELSE IF g.active = pid THEN {Err}
    ELSE LET g1 == IF g.zobbo = <<>>
                   THEN [g EXCEPT !.zobbo = <<[caller |-> pid, remaining |-> 2]>>]
                   ELSE g
         IN {Ok(g1, broadcast_game_update(NoMsgs, g1), FALSE)}

handle_power_check_own(pid, index) ==
  IF game = <<>> THEN {Err}
  ELSE LET g == game[1] IN
    IF g.active /= pid THEN {Err}
    ELSE IF g.stage.kind /= "Power" THEN {Err}
    ELSE IF g.stage.card.rank \notin {Five, Six, Seven, Eight} THEN {Err}
    ELSE IF index >= NumSlots THEN {Err}
    ELSE LET c == g.seats[pid].slots[index]
         IN IF c = NoCard THEN {Err}
            ELSE {Ok(g, send_to(NoMsgs, pid,
                       [type |-> "peek_result", target |-> "self", index |-> index,
                        card |-> card_public(c)]), TRUE)}

handle_power_check_opp(pid, index) ==
  IF game = <<>> THEN {Err}
  ELSE LET g == game[1] IN
    IF g.active /= pid THEN {Err}
    ELSE IF g.stage.kind /= "Power" THEN {Err}
    ELSE IF g.stage.card.rank \notin {Nine, Ten} THEN {Err}
    ELSE IF index >= NumSlots THEN {Err}
    ELSE LET c == g.seats[opponent_of(g, pid)].slots[index]
         IN IF c = NoCard THEN {Err}
            ELSE {Ok(g, send_to(NoMsgs, pid,
                       [type |-> "peek_result", target |-> "opponent", index |-> index,
                        card |-> card_public(c)]), TRUE)}

\* The swap raising the version also when it restores the slot's card.
SwapSlotWithDeck_bump_restored(g, who, index) ==
  LET old == g.seats[who].slots[index]
  IN IF old = NoCard
     THEN {Ok(g, broadcast_game_update(NoMsgs, g), TRUE)}
     ELSE { IF d.card = <<>>
            THEN LET g1 == BumpVersion(SetSlot(d.g, who, index, old), who, index)
                 IN Ok(g1, broadcast_game_update(NoMsgs, g1), TRUE)
            ELSE LET g1 == [BumpVersion(SetSlot(d.g, who, index, d.card[1]), who, index)
                              EXCEPT !.deck = Append(@, old)]
                 IN Ok(g1, broadcast_game_update(NoMsgs, g1), TRUE)
            : d \in draw_from_deck(SetSlot(g, who, index, NoCard)) }

\* The slot-for-deck-top swap both deck powers perform on seat `who`, from the
\* take() of the slot to the drop of the game lock.
SwapSlotWithDeck(g, who, index) ==
  LET old == g.seats[who].slots[index]
  IN IF old = NoCard
     THEN {Ok(g, broadcast_game_update(NoMsgs, g), TRUE)}
     ELSE { IF d.card = <<>>
            THEN LET g1 == SetSlot(d.g, who, index, old)
                 IN Ok(g1, broadcast_game_update(NoMsgs, g1), TRUE)
            ELSE LET g1 == [BumpVersion(SetSlot(d.g, who, index, d.card[1]), who, index)
                              EXCEPT !.deck = Append(@, old)]
                 IN Ok(g1, broadcast_game_update(NoMsgs, g1), TRUE)
            : d \in draw_from_deck(SetSlot(g, who, index, NoCard)) }

\* handle_power_swap_with_deck without the test of the power card's rank.
handle_power_swap_with_deck_any_rank(pid, index) ==
  IF game = <<>> THEN {Err}
  ELSE LET g == game[1] IN
    IF g.active /= pid THEN {Err}
    ELSE IF g.stage.kind /= "Power" THEN {Err}
    ELSE IF index >= NumSlots THEN {Err}
    ELSE SwapSlotWithDeck(g, pid, index)

handle_power_swap_with_deck(pid, index) ==
  IF game = <<>> THEN {Err}
  ELSE LET g == game[1] IN
    IF g.active /= pid THEN {Err}
    ELSE IF g.stage.kind /= "Power" THEN {Err}
    ELSE IF g.stage.card.rank /= Jack THEN {Err}
    ELSE IF index >= NumSlots THEN {Err}
    ELSE SwapSlotWithDeck(g, pid, index)

\* handle_power_swap_with_opp without the restore of the taken card.
handle_power_swap_with_opp_no_restore(pid, my_index, opp_index) ==
  IF game = <<>> THEN {Err}
  ELSE LET g == game[1] IN
    IF g.active /= pid THEN {Err}
    ELSE IF g.stage.kind /= "Power" THEN {Err}
    ELSE IF g.stage.card.rank /= Queen THEN {Err}
    ELSE IF my_index >= NumSlots THEN {Err}
    ELSE IF g.seats[pid].slots[my_index] = NoCard THEN {Err}
    ELSE LET opp_id == opponent_of(g, pid)
             my_card == g.seats[pid].slots[my_index]
             taken == SetSlot(g, pid, my_index, NoCard)
         IN IF opp_index >= NumSlots THEN {ErrAfter(taken)}
            ELSE IF taken.seats[opp_id].slots[opp_index] = NoCard
            THEN {ErrAfter(taken)}
            ELSE LET opp_card == taken.seats[opp_id].slots[opp_index]
                     g1 == BumpVersion(SetSlot(taken, pid, my_index, opp_card),
                                       pid, my_index)
                     g2 == BumpVersion(SetSlot(g1, opp_id, opp_index, my_card),
                                       opp_id, opp_index)
                 IN {Ok(g2, broadcast_game_update(NoMsgs, g2), TRUE)}

handle_power_swap_with_opp(pid, my_index, opp_index) ==
  IF game = <<>> THEN {Err}
  ELSE LET g == game[1] IN
    IF g.active /= pid THEN {Err}
    ELSE IF g.stage.kind /= "Power" THEN {Err}
    ELSE IF g.stage.card.rank /= Queen THEN {Err}
    ELSE IF my_index >= NumSlots THEN {Err}
    ELSE IF g.seats[pid].slots[my_index] = NoCard THEN {Err}
    ELSE LET opp_id == opponent_of(g, pid)
             my_card == g.seats[pid].slots[my_index]
             \* my card is taken out first, and put back on either failure
             taken == SetSlot(g, pid, my_index, NoCard)
             restored == SetSlot(taken, pid, my_index, my_card)
         IN IF opp_index >= NumSlots THEN {ErrAfter(restored)}
            ELSE IF taken.seats[opp_id].slots[opp_index] = NoCard
            THEN {ErrAfter(restored)}
            ELSE LET opp_card == taken.seats[opp_id].slots[opp_index]
                     g1 == BumpVersion(SetSlot(taken, pid, my_index, opp_card),
                                       pid, my_index)
                     g2 == BumpVersion(SetSlot(g1, opp_id, opp_index, my_card),
                                       opp_id, opp_index)
                 IN {Ok(g2, broadcast_game_update(NoMsgs, g2), TRUE)}

handle_power_opp_swap_with_deck(pid, opp_index) ==
  IF game = <<>> THEN {Err}
  ELSE LET g == game[1] IN
    IF g.active /= pid THEN {Err}
    ELSE IF g.stage.kind /= "Power" THEN {Err}
    ELSE IF ~(g.stage.card.rank = King /\ is_red(g.stage.card.suit)) THEN {Err}
    ELSE IF opp_index >= NumSlots THEN {Err}
    ELSE SwapSlotWithDeck(g, opponent_of(g, pid), opp_index)

\* handle_end_turn without the is_active test.
handle_end_turn_any_player(pid) ==
  IF game = <<>> THEN {Err}
  ELSE {Ok(game[1], NoMsgs, TRUE)}

handle_end_turn(pid) ==
  IF ~is_active(pid) THEN {Err}
  ELSE {Ok(game[1], NoMsgs, TRUE)}

\* ------------------------------------------------- Spec: handlers run whole
roomVars == <<players, started, conn, locks>>

VersionsInBound(g) ==
  \A p \in PlayerIds : \A i \in SlotIdx : g.seats[p].versions[i] <= MaxVersion

\* A handler that returned Err: nothing queued, and the GameState as the
\* handler left it.
Reject(o) ==
  /\ ret' = "Err"
  /\ sent' = NoMsgs
  /\ ended' = "none"
  /\ game' = IF "g" \in DOMAIN o THEN <<o.g>> ELSE game
  /\ UNCHANGED <<calls, roomVars>>

\* One handler call from its first line to its return, the end_turn_common it
\* ends with included.
Handle(outcomes) ==
  \E o \in outcomes :
    IF o.ret = "Err" THEN Reject(o)
    ELSE LET e == IF o.end THEN end_turn_common(o.out, o.g)
                  ELSE [g |-> o.g, out |-> o.out, turn |-> "none"]
         IN /\ calls < MaxCalls
            /\ VersionsInBound(e.g)
            /\ game' = <<e.g>>
            /\ ret' = "Ok"
            /\ sent' = e.out
            /\ ended' = e.turn
            /\ calls' = calls + 1
            /\ UNCHANGED roomVars

DrawDeck(pid) == Handle(handle_draw(pid, "Deck"))

DrawDiscard(pid) == Handle(handle_draw(pid, "Discard"))

SwapWithHand(pid, index) == Handle(handle_swap_with_hand(pid, index))

DiscardDrawn(pid) == Handle(handle_discard_drawn(pid))

MatchTop(pid, index) == Handle(handle_match_top(pid, index))

CallZobbo(pid) == Handle(handle_call_zobbo(pid))

PowerCheckOwn(pid, index) == Handle(handle_power_check_own(pid, index))

PowerCheckOpp(pid, index) == Handle(handle_power_check_opp(pid, index))

PowerSwapWithDeck(pid, index) == Handle(handle_power_swap_with_deck(pid, index))

PowerSwapWithOpp(pid, my_index, opp_index) ==
  Handle(handle_power_swap_with_opp(pid, my_index, opp_index))

PowerOppSwapWithDeck(pid, opp_index) ==
  Handle(handle_power_opp_swap_with_deck(pid, opp_index))

EndTurn(pid) == Handle(handle_end_turn(pid))

Conns == 1..NumConns

\* Both players joined, connected (connection 1 and 2) and ready.
ConnectedPlayers ==
  [p \in PlayerIds |->
     [connected |-> TRUE, ready |-> TRUE, tx |-> IF p = "p1" THEN 1 ELSE 2]]

OpenConns ==
  [c \in Conns |->
     IF c = 1 THEN [pc |-> "open", player |-> "p1"]
     ELSE IF c = 2 THEN [pc |-> "open", player |-> "p2"]
     ELSE [pc |-> "closed", player |-> "p1"]]

NoLocks == [players |-> 0, started |-> 0]

\* The room right after start_game built its GameState.
Init ==
  /\ \E starting \in PlayerIds : \E g \in start_game(starting) : game = <<g>>
  /\ players = ConnectedPlayers
  /\ started = TRUE
  /\ conn = OpenConns
  /\ locks = NoLocks
  /\ ret = "none"
  /\ sent = NoMsgs
  /\ ended = "none"
  /\ calls = 0

Next ==
  \E pid \in PlayerIds :
    \/ DrawDeck(pid)
    \/ DrawDiscard(pid)
    \/ \E index \in ClientIdx : SwapWithHand(pid, index)
    \/ DiscardDrawn(pid)
    \/ \E index \in ClientIdx : MatchTop(pid, index)
    \/ CallZobbo(pid)
    \/ \E index \in ClientIdx : PowerCheckOwn(pid, index)
    \/ \E index \in ClientIdx : PowerCheckOpp(pid, index)
    \/ \E index \in ClientIdx : PowerSwapWithDeck(pid, index)
    \/ \E my_index, opp_index \in ClientIdx : PowerSwapWithOpp(pid, my_index, opp_index)
    \/ \E opp_index \in ClientIdx : PowerOppSwapWithDeck(pid, opp_index)
    \/ EndTurn(pid)

Spec == Init /\ [][Next]_vars

\* ------------------------------------- SpecConc: one step per lock section
\* The ClientToServer messages that act on the game.
ClientMsgs ==
  {[type |-> t] : t \in {"draw_deck", "draw_discard", "discard_drawn",
                         "call_zobbo", "end_turn"}}
  \cup {[type |-> t, index |-> i] :
          t \in {"swap_with_hand", "match_top", "power_check_own", "power_check_opp",
                 "power_swap_with_deck", "power_opp_swap_with_deck"},
          i \in ClientIdx}
  \cup {[type |-> "power_swap_with_opp", my_index |-> i, opp_index |-> j] :
          i \in ClientIdx, j \in ClientIdx}

\* The read loop's match on the parsed message.
Dispatch(pid, msg) ==
  CASE msg.type = "draw_deck" -> handle_draw(pid, "Deck")
    [] msg.type = "draw_discard" -> handle_draw(pid, "Discard")
    [] msg.type = "swap_with_hand" -> handle_swap_with_hand(pid, msg.index)
    [] msg.type = "discard_drawn" -> handle_discard_drawn(pid)
    [] msg.type = "match_top" -> handle_match_top(pid, msg.index)
    [] msg.type = "call_zobbo" -> handle_call_zobbo(pid)
    [] msg.type = "power_check_own" -> handle_power_check_own(pid, msg.index)
    [] msg.type = "power_check_opp" -> handle_power_check_opp(pid, msg.index)
    [] msg.type = "power_swap_with_deck" -> handle_power_swap_with_deck(pid, msg.index)
    [] msg.type = "power_swap_with_opp" ->
         handle_power_swap_with_opp(pid, msg.my_index, msg.opp_index)
    [] msg.type = "power_opp_swap_with_deck" ->
         handle_power_opp_swap_with_deck(pid, msg.index)
    [] msg.type = "end_turn" -> handle_end_turn(pid)

\* Connection task c takes a message off its socket and runs the handler up
\* to where it drops the game lock; a handler that ends the turn is then
\* about to call end_turn_common, which takes the lock again.
Receive(c, msg) ==
  /\ conn[c].pc = "open"
  /\ \E o \in Dispatch(conn[c].player, msg) :
       IF o.ret = "Err"
       THEN Reject(o)
       ELSE /\ calls < MaxConcCalls
            /\ VersionsInBound(o.g)
            /\ game' = <<o.g>>
            /\ ret' = "Ok"
            /\ sent' = o.out
            /\ ended' = "none"
            /\ calls' = calls + 1
            /\ conn' = [conn EXCEPT ![c].pc = IF o.end THEN "end_turn_common" ELSE "open"]
            /\ UNCHANGED <<players, started, locks>>

\* Connection task c runs the end_turn_common its handler ends with.
EndTurnCommon(c) ==
  /\ conn[c].pc = "end_turn_common"
  /\ game /= <<>>
  /\ LET e == end_turn_common(NoMsgs, game[1])
     IN /\ game' = <<e.g>>
        /\ sent' = e.out
        /\ ended' = e.turn
  /\ ret' = "Ok"
  /\ conn' = [conn EXCEPT ![c].pc = "open"]
  /\ UNCHANGED <<players, started, locks, calls>>

\* As Init, with a second connection of p1 attached after its first one.
InitConc ==
  /\ \E starting \in PlayerIds : \E g \in start_game(starting) : game = <<g>>
  /\ players = [ConnectedPlayers EXCEPT !["p1"].tx = NumConns]
  /\ started = TRUE
  /\ conn = [OpenConns EXCEPT ![NumConns].pc = "open"]
  /\ locks = NoLocks
  /\ ret = "none"
  /\ sent = NoMsgs
  /\ ended = "none"
  /\ calls = 0

NextConc ==
  \E c \in Conns :
    \/ \E msg \in ClientMsgs : Receive(c, msg)
    \/ EndTurnCommon(c)

SpecConc == InitConc /\ [][NextConc]_vars

\* ------------------------------------------------- SpecLobby: before the game
from_room(pl) == [p \in DOMAIN pl |-> [connected |-> pl[p].connected, ready |-> pl[p].ready]]

\* broadcast: the message on every channel the records hold.
broadcast(pl, out, msg) ==
  [p \in Uuids |->
     IF p \in DOMAIN pl /\ pl[p].tx /= 0 THEN Append(out[p], msg) ELSE out[p]]

\* join_room without its test of players.len().
JoinRoom_unchecked ==
  /\ locks.players = 0
  /\ ret' = "Ok"
  /\ \E pid \in Uuids \ DOMAIN players :
       players' = [p \in DOMAIN players \cup {pid} |->
                     IF p = pid
                     THEN [connected |-> FALSE, ready |-> FALSE, tx |-> 0]
                     ELSE players[p]]
  /\ sent' = NoMsgs
  /\ ended' = "none"
  /\ UNCHANGED <<game, started, conn, locks, calls>>

\* POST /room/{id}/join.  The players mutex is held from the test of
\* players.len() to the insert, so the request is one step; a full room
\* answers 409 CONFLICT.
JoinRoom ==
  /\ locks.players = 0
  /\ IF Cardinality(DOMAIN players) >= 2
     THEN /\ ret' = "Conflict"
          /\ UNCHANGED players
     ELSE /\ ret' = "Ok"
          /\ \E pid \in Uuids \ DOMAIN players :
               players' = [p \in DOMAIN players \cup {pid} |->
                             IF p = pid
                             THEN [connected |-> FALSE, ready |-> FALSE, tx |-> 0]
                             ELSE players[p]]
  /\ sent' = NoMsgs
  /\ ended' = "none"
  /\ UNCHANGED <<game, started, conn, locks, calls>>

\* ws_handler and the head of handle_socket, for a token of player pid: the
\* record gets the new channel, then the lobby is broadcast and the task
\* welcomes its client.
Connect(c, pid) ==
  /\ conn[c].pc = "closed"
  /\ locks.players = 0
  /\ IF pid \notin DOMAIN players
     THEN /\ ret' = "Err"
          /\ sent' = NoMsgs
          /\ UNCHANGED <<players, conn>>
     ELSE LET pl == [players EXCEPT ![pid].connected = TRUE, ![pid].tx = c]
              lobby == [type |-> "lobby_update", lobby |-> from_room(pl)]
              out == broadcast(pl, NoMsgs, lobby)
          IN /\ players' = pl
             /\ conn' = [conn EXCEPT ![c] = [pc |-> "open", player |-> pid]]
             /\ sent' = [out EXCEPT ![pid] =
                           Append(@, [type |-> "welcome", player_id |-> pid,
                                      lobby |-> from_room(pl)])]
             /\ ret' = "Ok"
  /\ ended' = "none"
  /\ UNCHANGED <<game, started, locks, calls>>

\* The tail of handle_socket, clearing the ready flag as well.
Disconnect_unready(c) ==
  /\ conn[c].pc = "open"
  /\ locks.players = 0
  /\ LET pid == conn[c].player
         pl == [players EXCEPT ![pid].connected = FALSE, ![pid].tx = 0, ![pid].ready = FALSE]
     IN /\ players' = pl
        /\ sent' = broadcast(pl, NoMsgs, [type |-> "lobby_update", lobby |-> from_room(pl)])
  /\ conn' = [conn EXCEPT ![c].pc = "closed"]
  /\ ret' = "Ok"
  /\ ended' = "none"
  /\ UNCHANGED <<game, started, locks, calls>>

\* The tail of handle_socket, once the read loop has ended.
Disconnect(c) ==
  /\ conn[c].pc = "open"
  /\ locks.players = 0
  /\ LET pid == conn[c].player
         pl == [players EXCEPT ![pid].connected = FALSE, ![pid].tx = 0]
     IN /\ players' = pl
        /\ sent' = broadcast(pl, NoMsgs, [type |-> "lobby_update", lobby |-> from_room(pl)])
  /\ conn' = [conn EXCEPT ![c].pc = "closed"]
  /\ ret' = "Ok"
  /\ ended' = "none"
  /\ UNCHANGED <<game, started, locks, calls>>

\* on_player_ready without its test of the started flag.
Ready_restart(c) ==
  /\ conn[c].pc = "open"
  /\ locks.players = 0
  /\ LET pid == conn[c].player
         pl == [players EXCEPT ![pid].ready = TRUE]
         all_ready == /\ Cardinality(DOMAIN pl) = 2
                      /\ \A p \in DOMAIN pl : pl[p].connected /\ pl[p].ready
     IN /\ players' = pl
        /\ IF all_ready
           THEN /\ locks.started = 0
                /\ started' = TRUE
                /\ locks' = [players |-> c, started |-> c]
                /\ conn' = [conn EXCEPT ![c].pc = "get_both_ids"]
                /\ sent' = NoMsgs
                /\ ret' = "none"
           ELSE /\ sent' = broadcast(pl, NoMsgs,
                             [type |-> "lobby_update", lobby |-> from_room(pl)])
                /\ ret' = "Ok"
                /\ UNCHANGED <<started, locks, conn>>
  /\ ended' = "none"
  /\ UNCHANGED <<game, calls>>

\* on_player_ready.  It takes the players mutex, marks the player ready and,
\* when both players are connected and ready and the room has not started,
\* takes the started mutex, sets started and calls start_game while holding
\* both.  start_game begins with get_both_ids, which locks room.players: a
\* parking_lot::Mutex is not reentrant and the calling task is its holder, so
\* the task waits there ("get_both_ids") with both mutexes held.  No step
\* of the program releases them, which is why the rest of start_game and of
\* on_player_ready has no action here.
Ready(c) ==
  /\ conn[c].pc = "open"
  /\ locks.players = 0
  /\ LET pid == conn[c].player
         pl == [players EXCEPT ![pid].ready = TRUE]
         all_ready == /\ Cardinality(DOMAIN pl) = 2
                      /\ \A p \in DOMAIN pl : pl[p].connected /\ pl[p].ready
     IN /\ players' = pl
        /\ IF all_ready /\ ~started
           THEN /\ locks.started = 0
                /\ started' = TRUE
                /\ locks' = [players |-> c, started |-> c]
                /\ conn' = [conn EXCEPT ![c].pc = "get_both_ids"]
                /\ sent' = NoMsgs
                /\ ret' = "none"
           ELSE /\ sent' = broadcast(pl, NoMsgs,
                             [type |-> "lobby_update", lobby |-> from_room(pl)])
                /\ ret' = "Ok"
                /\ UNCHANGED <<started, locks, conn>>
  /\ ended' = "none"
  /\ UNCHANGED <<game, calls>>

InitLobby ==
  /\ game = <<>>
  /\ players = [p \in {} |-> 0]
  /\ started = FALSE
  /\ conn = [c \in Conns |-> [pc |-> "closed", player |-> "p1"]]
  /\ locks = NoLocks
  /\ ret = "none"
  /\ sent = NoMsgs
  /\ ended = "none"
  /\ calls = 0

NextLobby ==
  \/ JoinRoom
  \/ \E c \in Conns :
       \/ \E pid \in Uuids : Connect(c, pid)
       \/ Ready(c)
       \/ Disconnect(c)
       \/ \E msg \in ClientMsgs : Receive(c, msg)

SpecLobby == InitLobby /\ [][NextLobby]_vars

\* The lobby with the runtime's scheduling: a request or task that can take
\* a step is not left waiting for ever.
SpecLobbyLive == SpecLobby /\ WF_vars(NextLobby)

\* ---- Connection tasks with broadcast_game_update step by step ----
\* broadcast_game_update collects the player ids and then, for each id, calls
\* compose_update_for, which locks room.game for its clone only, and send_to,
\* which locks room.players.  No lock is held from one call to the next, so
\* each is a step of the task, and other tasks' steps come in between.
\* Here sent[p] is the newest game_update queued to p, followed by what was
\* queued after it.

\* A task not in a handler: no broadcast under way.
Idle(pc, player) ==
  [pc |-> pc, player |-> player, todo |-> <<>>, upd |-> <<>>, snap |-> <<>>,
   end |-> FALSE, reveal |-> FALSE]

\* The task at the head of broadcast_game_update, the ids in HashMap order.
\* snap is the GameState the broadcast's first update is composed from.
Broadcasting(t, todo, end, reveal) ==
  [t EXCEPT !.pc = "compose", !.todo = todo, !.upd = <<>>, !.snap = <<>>,
            !.end = end, !.reveal = reveal]

\* The messages whose handlers call broadcast_game_update or end_turn_common
\* after their own locked part.
ViewMsgs == {m \in ClientMsgs : m.type \notin {"power_check_own", "power_check_opp"}}

\* The read loop takes a message and runs its handler to drop(g_lock).
Handler(c, msg) ==
  /\ conn[c].pc = "open"
  /\ \E o \in Dispatch(conn[c].player, msg) :
       IF o.ret = "Err"
       THEN /\ ret' = "Err"
            /\ game' = (IF "g" \in DOMAIN o THEN <<o.g>> ELSE game)
            /\ UNCHANGED <<conn, calls>>
       ELSE /\ calls < MaxConcCalls
            /\ VersionsInBound(o.g)
            /\ game' = <<o.g>>
            /\ ret' = "Ok"
            /\ calls' = calls + 1
            /\ IF msg.type = "end_turn"
               THEN conn' = [conn EXCEPT ![c].pc = "end_turn_common"]
               ELSE \E todo \in Perms(DOMAIN players) :
                      conn' = [conn EXCEPT ![c] = Broadcasting(@, todo, o.end, FALSE)]
  /\ ended' = "none"
  /\ UNCHANGED <<players, started, locks, sent>>

\* compose_update_for for the next id: a clone of room.game under its lock.
ComposeUpdate(c) ==
  /\ conn[c].pc = "compose"
  /\ conn' = [conn EXCEPT ![c].pc = "send",
                          ![c].upd = <<compose_update_for(game[1], Head(conn[c].todo))>>,
                          ![c].snap = IF conn[c].snap = <<>> THEN game ELSE @]
  /\ UNCHANGED <<game, players, started, locks, ret, sent, ended, calls>>

\* send_to for the update just composed; after the last id the handler goes
\* on to end_turn_common, or end_turn_common to reveal_and_finish, or the
\* task is back in its read loop.
SendUpdate(c) ==
  /\ conn[c].pc = "send"
  /\ LET pid == Head(conn[c].todo)
         rest == Tail(conn[c].todo)
     IN /\ sent' = IF players[pid].tx /= 0
                   THEN [sent EXCEPT ![pid] = <<[type |-> "game_update", update |-> conn[c].upd[1]]>>]
                   ELSE sent
        /\ conn' = [conn EXCEPT ![c] =
                      IF rest /= <<>> THEN [@ EXCEPT !.pc = "compose", !.todo = rest, !.upd = <<>>]
                      ELSE IF @.end THEN Idle("end_turn_common", @.player)
                      ELSE IF @.reveal THEN Idle("reveal", @.player)
                      ELSE Idle("open", @.player)]
  /\ UNCHANGED <<game, players, started, locks, ret, ended, calls>>

\* end_turn_common to its drop(g_lock).
EndTurnLocked(c) ==
  /\ conn[c].pc = "end_turn_common"
  /\ LET e == end_turn_common(NoMsgs, game[1])
         zobbo_done == e.g.zobbo /= <<>> /\ e.g.zobbo[1].remaining = 0
     IN /\ game' = <<e.g>>
        /\ ended' = e.turn
        /\ \E todo \in Perms(DOMAIN players) :
             conn' = [conn EXCEPT ![c] = Broadcasting(@, todo, FALSE, zobbo_done)]
  /\ UNCHANGED <<players, started, locks, ret, sent, calls>>

\* reveal_and_finish.
Reveal(c) ==
  /\ conn[c].pc = "reveal"
  /\ sent' = reveal_and_finish(sent, game[1])
  /\ conn' = [conn EXCEPT ![c].pc = "open"]
  /\ UNCHANGED <<game, players, started, locks, ret, ended, calls>>

InitViews ==
  /\ \E starting \in PlayerIds : \E g \in start_game(starting) : game = <<g>>
  /\ players = ConnectedPlayers
  /\ started = TRUE
  /\ conn = [c \in Conns |-> Idle(OpenConns[c].pc, OpenConns[c].player)]
  /\ locks = NoLocks
  /\ ret = "none"
  /\ sent = NoMsgs
  /\ ended = "none"
  /\ calls = 0

NextViews ==
  \E c \in Conns :
    \/ \E msg \in ViewMsgs : Handler(c, msg)
    \/ ComposeUpdate(c)
    \/ SendUpdate(c)
    \/ EndTurnLocked(c)
    \/ Reveal(c)

SpecViews == InitViews /\ [][NextViews]_vars

\* ---- Connection tasks in a Power stage ----

\* As InitConc, two calls into the first turn: the starting player drew the
\* deck's top card, a Five to Ten, and sent discard_drawn.
InitPeek ==
  /\ \E starting \in PlayerIds : \E g \in start_game(starting) :
       /\ Last(g.deck).rank \in Five..Ten
       /\ game = <<[g EXCEPT !.deck = Front(@),
                             !.discard = <<Last(g.deck)>>,
                             !.stage = [kind |-> "Power", card |-> Last(g.deck)]]>>
  /\ players = [ConnectedPlayers EXCEPT !["p1"].tx = NumConns]
  /\ started = TRUE
  /\ conn = [OpenConns EXCEPT ![NumConns].pc = "open"]
  /\ locks = NoLocks
  /\ ret = "Ok"
  /\ sent = NoMsgs
  /\ ended = "none"
  /\ calls = 0

SpecPeek == InitPeek /\ [][NextConc]_vars

\* ---- Draws from every deck and discard pile ----

\* The cards in the deck, and those in the discard pile, when a turn begins.
DeckSide == {Card(Four, "Spades"), Card(Jack, "Clubs")}

DiscardSide == {Card(Five, "Clubs"), Card(Nine, "Diamonds"), Card(Queen, "Hearts")}

\* The orders in which cards of S can lie in a pile, the empty pile included.
Piles(S) == UNION {Perms(T) : T \in SUBSET S}

\* A game at the start of a turn: any deck, any discard pile, one card in
\* each seat.  One accepted call is explored from here.
InitDraw ==
  /\ \E deck \in Piles(DeckSide), discard \in Piles(DiscardSide), a \in PlayerIds :
       game = << [ deck |-> deck,
                   discard |-> discard,
                   seats |-> [p \in PlayerIds |->
                                [ slots |-> [i \in SlotIdx |->
                                               Card(King, IF p = "p1" THEN "Hearts" ELSE "Spades")],
                                  versions |-> [i \in SlotIdx |-> 0] ]],
                   active |-> a,
                   stage |-> [kind |-> "AwaitDraw"],
                   skip_next |-> {},
                   zobbo |-> <<>> ] >>
  /\ players = ConnectedPlayers
  /\ started = TRUE
  /\ conn = OpenConns
  /\ locks = NoLocks
  /\ ret = "none"
  /\ sent = NoMsgs
  /\ ended = "none"
  /\ calls = MaxCalls - 1

NextDraw ==
  \E pid \in PlayerIds :
    \/ DrawDeck(pid)
    \/ DrawDiscard(pid)

SpecDraw == InitDraw /\ [][NextDraw]_vars

\* ---- start_game at full size ----

\* Cards start_game deals to a seat.
HandSize == 6

SuitOrder == <<"Clubs", "Diamonds", "Hearts", "Spades">>

\* build_deck before its shuffle: for each suit, the ranks from Ace to King.
OrderedDeck ==
  [i \in 1..(Len(SuitOrder) * King) |->
     Card(((i - 1) % King) + 1, SuitOrder[((i - 1) \div King) + 1])]

\* The deck cut k cards from the top.
Cut(deck, k) ==
  [i \in 1..Len(deck) |-> deck[((i - 1 + k) % Len(deck)) + 1]]

\* The shuffles explored: the cuts of the ordered deck and of its reverse.
full_build_deck ==
  {Cut(OrderedDeck, k) : k \in 0..(NumCuts - 1)} \cup
  {Cut([i \in 1..Len(OrderedDeck) |-> OrderedDeck[Len(OrderedDeck) + 1 - i]], k) :
     k \in 0..(NumCuts - 1)}

\* start_game for starting player `starting` in a room that has no GameState.
StartGame(starting) ==
  /\ game = <<>>
  /\ \E deck \in full_build_deck, a \in PlayerIds :
       game' = <<Deal(deck, a, HandSize, starting)>>
  /\ started' = TRUE
  /\ ret' = "Ok"
  /\ sent' = NoMsgs
  /\ ended' = "none"
  /\ UNCHANGED <<players, conn, locks, calls>>

InitDeal ==
  /\ game = <<>>
  /\ players = ConnectedPlayers
  /\ started = FALSE
  /\ conn = OpenConns
  /\ locks = NoLocks
  /\ ret = "none"
  /\ sent = NoMsgs
  /\ ended = "none"
  /\ calls = 0

NextDeal == \E starting \in PlayerIds : StartGame(starting)

SpecDeal == InitDeal /\ [][NextDeal]_vars

\* ---- Signed tokens and the WebSocket gate ----

\* The room ids a request path can name, and the ones state.rooms holds.
RoomIds == {"r1", "r2"}

Rooms == {"r1"}

\* Byte strings: the JSON of a Claims value, bytes that are no such JSON,
\* and the tag hmac_sha256 computes for a byte string under the server key.
ClaimsJson(room, player) == [kind |-> "json", room |-> room, player |-> player, of |-> <<>>]

OtherBytes == [kind |-> "text", room |-> "", player |-> "", of |-> <<>>]

hmac_sha256(data) == [kind |-> "mac", room |-> "", player |-> "", of |-> <<data>>]

\* URL_SAFE_NO_PAD: encode wraps bytes into text of the alphabet, decode
\* unwraps it and fails on text outside the alphabet.
NotBase64 == [b64 |-> FALSE, data |-> OtherBytes]

b64_encode(data) == [b64 |-> TRUE, data |-> data]

b64_decode(part) == IF part.b64 THEN <<part.data>> ELSE <<>>

\* issue_token: base64url(json).base64url(hmac_sha256(json)), as the
\* sequence of its dot-separated parts.
issue_token(room_id, player_id) ==
  LET payload == ClaimsJson(room_id, player_id)
  IN <<b64_encode(payload), b64_encode(hmac_sha256(payload))>>

\* verify_token with the signature comparison left out.
verify_token_unsigned(token) ==
  IF Len(token) /= 2 THEN <<>>
  ELSE LET payload == b64_decode(token[1])
           sig == b64_decode(token[2])
       IN IF payload = <<>> \/ sig = <<>> THEN <<>>
          ELSE IF payload[1].kind /= "json" THEN <<>>
          ELSE <<[room |-> payload[1].room, player |-> payload[1].player]>>

\* verify_token: <<>> for an error, <<[room, player]>> for Ok.
verify_token(token) ==
  IF Len(token) /= 2 THEN <<>>
  ELSE LET payload == b64_decode(token[1])
           sig == b64_decode(token[2])
       IN IF payload = <<>> \/ sig = <<>> THEN <<>>
          ELSE IF sig[1] /= hmac_sha256(payload[1]) THEN <<>>
          ELSE IF payload[1].kind /= "json" THEN <<>>
          ELSE <<[room |-> payload[1].room, player |-> payload[1].player]>>

\* ws_handler up to the upgrade: the status it answers with and, for Ok, the
\* player handle_socket is started for.
ws_handler(pl, room_id, token) ==
  LET v == verify_token(token)
  IN IF v = <<>> THEN [ret |-> "Unauthorized"]
     ELSE IF v[1].room /= room_id THEN [ret |-> "Unauthorized"]
     ELSE IF room_id \notin Rooms THEN [ret |-> "NotFound"]
     ELSE IF v[1].player \notin DOMAIN pl THEN [ret |-> "Unauthorized"]
     ELSE [ret |-> "Ok", player |-> v[1].player]

\* The tokens a client can present: the parts of issued tokens in any
\* pairing, text that is no base64, and tokens of one and of three parts.
TokenPayloads == {ClaimsJson(r, p) : r \in RoomIds, p \in Uuids} \cup {OtherBytes}

TokenParts ==
  {b64_encode(d) : d \in TokenPayloads} \cup
  {b64_encode(hmac_sha256(d)) : d \in TokenPayloads} \cup {NotBase64}

Tokens ==
  {<<a, b>> : a \in TokenParts, b \in TokenParts} \cup
  {<<a>> : a \in TokenParts} \cup
  {issue_token(r, p) \o <<NotBase64>> : r \in RoomIds, p \in Uuids}

\* GET /room/{room_id}/ws?token=... on connection c: ws_handler, and for Ok
\* the upgrade and the head of handle_socket.
Upgrade(c, room_id, token) ==
  LET r == ws_handler(players, room_id, token)
  IN IF r.ret = "Ok"
     THEN Connect(c, r.player)
     ELSE /\ conn[c].pc = "closed"
          /\ ret' = r.ret
          /\ sent' = NoMsgs
          /\ ended' = "none"
          /\ UNCHANGED <<game, players, started, conn, locks, calls>>

NextGate ==
  \/ JoinRoom
  \/ \E c \in Conns :
       \/ \E room_id \in RoomIds, token \in Tokens : Upgrade(c, room_id, token)
       \/ Disconnect(c)

SpecGate == InitLobby /\ [][NextGate]_vars

\* A room over its whole life: it begins empty, or with both players joined,
\* connected and ready and the GameState built, and from there takes join,
\* connect, ready, disconnect and game steps.
InitStarted ==
  /\ \E starting \in PlayerIds : \E g \in start_game(starting) : game = <<g>>
  /\ players = ConnectedPlayers
  /\ started = TRUE
  /\ conn = OpenConns
  /\ locks = NoLocks
  /\ ret = "none"
  /\ sent = NoMsgs
  /\ ended = "none"
  /\ calls = MaxConcCalls - 1

InitRoom == InitLobby \/ InitStarted

NextRoom ==
  \/ NextLobby
  \/ \E c \in Conns : EndTurnCommon(c)

SpecRoom == InitRoom /\ [][NextRoom]_vars

\* ================================================================ properties
OccupiedSlots(g) ==
  {x \in PlayerIds \X SlotIdx : g.seats[x[1]].slots[x[2]] /= NoCard}

CardCount(g) == Len(g.deck) + Len(g.discard) + Cardinality(OccupiedSlots(g))

CardsOf(g) ==
  Range(g.deck) \cup Range(g.discard)
  \cup {g.seats[x[1]].slots[x[2]] : x \in OccupiedSlots(g)}

\* The number of cards build_deck makes (52 in the program).
PackSize == Cardinality(CHOOSE pack \in Packs : TRUE)

HasMsg(q, type) == \E i \in 1..Len(q) : q[i].type = type

GameOverQueued(out) == \E p \in PlayerIds : HasMsg(out[p], "game_over")

\* C1: card conservation.  In every state after start_game the cards of the
\* deck, the discard pile and the occupied seat slots number the whole pack,
\* and no card appears twice.  Stated for the states in which no card is in
\* a player's hand (stage AwaitDraw), where the count cannot be short by a
\* card that the stage holds.
CardConservation ==
  (game /= <<>> /\ game[1].stage.kind = "AwaitDraw") =>
    /\ CardCount(game[1]) = PackSize
    /\ Cardinality(CardsOf(game[1])) = CardCount(game[1])

\* C2: game start completes.  The step in which the second of two connected
\* players is marked ready, and the room started, leaves the GameState
\* created, every room mutex released, no task waiting for one, and a
\* game_start queued to both players.
GameStartCompletes ==
  [][(~started /\ started') =>
       /\ game' /= <<>>
       /\ locks' = NoLocks
       /\ \A c \in Conns : conn'[c].pc /= "get_both_ids"
       /\ \A p \in DOMAIN players' : HasMsg(sent'[p], "game_start")]_vars

\* The power set of discard_drawn: 5 to Queen, and the red King.
GrantsPower(card) ==
  \/ card.rank \in Five..Queen
  \/ card.rank = King /\ is_red(card.suit)

\* C3: discard path power rule.  A discard_drawn of the active player in
\* Holding enters Power only if the held card came from the deck and is in
\* the power set; for any other card, and for every card drawn from the
\* discard pile, it ends the turn instead.
DiscardPowerRule ==
  [][\A pid \in PlayerIds :
       (DiscardDrawn(pid) /\ ret' = "Ok") =>
         LET held == game[1].stage
             granted == held.from = "Deck" /\ GrantsPower(held.card)
         IN /\ game'[1].stage.kind = "Power" => granted
            /\ ~granted => (game'[1].stage.kind = "AwaitDraw" /\ ended' /= "none")]_vars

\* A step of a handler that only the active player may call.
ActiveOnlyStep(pid) ==
  \/ DrawDeck(pid)
  \/ DrawDiscard(pid)
  \/ DiscardDrawn(pid)
  \/ EndTurn(pid)
  \/ \E index \in ClientIdx :
       \/ SwapWithHand(pid, index)
       \/ PowerCheckOwn(pid, index)
       \/ PowerCheckOpp(pid, index)
       \/ PowerSwapWithDeck(pid, index)
       \/ PowerOppSwapWithDeck(pid, index)
  \/ \E my_index \in ClientIdx, opp_index \in ClientIdx :
       PowerSwapWithOpp(pid, my_index, opp_index)

\* C4: turn exclusivity.  A draw, swap, discard, power action or end_turn of
\* a player who is not active fails and leaves the GameState as it was; so
\* does a call_zobbo of the active player.
TurnExclusivity ==
  [][\A pid \in PlayerIds :
       /\ (game[1].active /= pid /\ ActiveOnlyStep(pid)) =>
            (ret' = "Err" /\ game' = game)
       /\ (game[1].active = pid /\ CallZobbo(pid)) =>
            (ret' = "Err" /\ game' = game)]_vars

\* A call by the player out of turn has just been rejected, in a state where
\* the same draw by the active player, and a call_zobbo by the other, pass.
TurnExclusivityWitness ==
  /\ ret = "Err"
  /\ game[1].stage.kind = "AwaitDraw"
  /\ LET a == game[1].active
     IN /\ handle_draw(Other(a), "Deck") = {Err}
        /\ Err \notin handle_draw(a, "Deck")
        /\ handle_call_zobbo(a) = {Err}
        /\ Err \notin handle_call_zobbo(Other(a))

PowerTypes ==
  {"power_check_own", "power_check_opp", "power_swap_with_deck",
   "power_swap_with_opp", "power_opp_swap_with_deck"}

\* The rank set of each power action.
PowerCardOf(type, card) ==
  CASE type = "power_check_own" -> card.rank \in {Five, Six, Seven, Eight}
    [] type = "power_check_opp" -> card.rank \in {Nine, Ten}
    [] type = "power_swap_with_deck" -> card.rank = Jack
    [] type = "power_swap_with_opp" -> card.rank = Queen
    [] type = "power_opp_swap_with_deck" -> card.rank = King /\ is_red(card.suit)

PowerStep(type, pid) ==
  CASE type = "power_check_own" -> \E i \in ClientIdx : PowerCheckOwn(pid, i)
    [] type = "power_check_opp" -> \E i \in ClientIdx : PowerCheckOpp(pid, i)
    [] type = "power_swap_with_deck" -> \E i \in ClientIdx : PowerSwapWithDeck(pid, i)
    [] type = "power_swap_with_opp" ->
         \E i \in ClientIdx, j \in ClientIdx : PowerSwapWithOpp(pid, i, j)
    [] type = "power_opp_swap_with_deck" ->
         \E i \in ClientIdx : PowerOppSwapWithDeck(pid, i)

\* C5: stage gating.  A power action succeeds only in stage Power with a
\* power card of the action's own rank set; in any other stage, or with any
\* other power card, it fails and the whole GameState is as it was.
StageGating ==
  [][\A pid \in PlayerIds : \A type \in PowerTypes :
       PowerStep(type, pid) =>
         IF game[1].stage.kind = "Power" /\ PowerCardOf(type, game[1].stage.card)
         THEN TRUE
         ELSE ret' = "Err" /\ game' = game]_vars

\* A call has just been rejected in stage Power with a Jack as the power
\* card, where the active player's check_own is refused and their
\* swap_with_deck is not.
StageGatingWitness ==
  /\ ret = "Err"
  /\ game[1].stage.kind = "Power"
  /\ game[1].stage.card.rank = Jack
  /\ handle_power_check_own(game[1].active, 0) = {Err}
  /\ Err \notin handle_power_swap_with_deck(game[1].active, 0)

\* C6: Zobbo termination.  With zobbo set at 2 the first end_turn_common
\* leaves it at 1 and the second at 0 with the reveal; from then on no step
\* reveals again.
ZobboTermination ==
  [][LET z == game[1].zobbo
     IN z /= <<>> =>
          /\ (ended' /= "none" /\ z[1].remaining = 2) =>
               (game'[1].zobbo[1].remaining = 1 /\ ~GameOverQueued(sent'))
          /\ (ended' /= "none" /\ z[1].remaining = 1) =>
               (game'[1].zobbo[1].remaining = 0 /\ GameOverQueued(sent'))
          /\ z[1].remaining = 0 => ~GameOverQueued(sent')]_vars

\* C7: skip semantics for every player.  When end_turn_common runs, for
\* every player in skip_next, the active seat or the other, active is
\* unchanged and the player is removed from skip_next; with nobody in
\* skip_next active flips.
SkipEveryPlayer ==
  [][ended' /= "none" =>
       /\ \A X \in game[1].skip_next :
            game'[1].active = game[1].active /\ X \notin game'[1].skip_next
       /\ game[1].skip_next = {} => game'[1].active = Other(game[1].active)]_vars

\* C7, amended: only the seat that is not active is looked up in skip_next.
\* If it is there, active is unchanged and that seat alone is removed; if it
\* is not, active flips to it and skip_next is as it was, so that an active
\* seat in skip_next stays in it.
SkipNextSeatOnly ==
  [][ended' /= "none" =>
       LET next == Other(game[1].active)
       IN IF next \in game[1].skip_next
          THEN /\ game'[1].active = game[1].active
               /\ game'[1].skip_next = game[1].skip_next \ {next}
          ELSE /\ game'[1].active = next
               /\ game'[1].skip_next = game[1].skip_next]_vars

\* end_turn_common has just passed the turn on from a seat that was in
\* skip_next, and still is.
SkipNextSeatOnlyWitness ==
  /\ ended = "next"
  /\ Other(game[1].active) \in game[1].skip_next

\* A match_top of player pid on slot index whose rank is not the discard
\* top's.
FailedMatch(pid, index) ==
  /\ index \in SlotIdx
  /\ Len(game[1].discard) > 0
  /\ game[1].seats[pid].slots[index] /= NoCard
  /\ game[1].seats[pid].slots[index].rank /= Last(game[1].discard).rank
  /\ MatchTop(pid, index)

\* C8: skip of the other seat.  When end_turn_common runs with the seat that
\* is not active in skip_next, that seat is removed and active stays;
\* otherwise active becomes that seat.  A failed match_top of the player who
\* is not active adds them to skip_next and changes no slot.
SkipOtherSeat ==
  [][/\ ended' /= "none" =>
          LET next == Other(game[1].active)
          IN IF next \in game[1].skip_next
             THEN next \notin game'[1].skip_next /\ game'[1].active = game[1].active
             ELSE game'[1].active = next
     /\ \A pid \in PlayerIds : \A index \in ClientIdx :
          (game[1].active /= pid /\ FailedMatch(pid, index)) =>
            /\ ret' = "Ok"
            /\ game'[1].skip_next = game[1].skip_next \cup {pid}
            /\ game'[1].seats = game[1].seats
            /\ game'[1].active = game[1].active]_vars

\* end_turn_common has just found the other seat in skip_next and kept the
\* turn with the active player.
SkipOtherSeatWitness ==
  /\ ended = "skip"
  /\ ret = "Ok"
  /\ game[1].skip_next = {}

ZobboCallRule ==
  [][/\ \A pid \in PlayerIds :
          (CallZobbo(pid) /\ ret' = "Ok") =>
            /\ game[1].active /= pid
            /\ game[1].stage.kind = "AwaitDraw"
            /\ game'[1] = IF game[1].zobbo = <<>>
                          THEN [game[1] EXCEPT
                                  !.zobbo = <<[caller |-> pid, remaining |-> 2]>>]
                          ELSE game[1]
     /\ game[1].zobbo /= <<>> =>
          /\ game'[1].zobbo /= <<>>
          /\ game'[1].zobbo[1].caller = game[1].zobbo[1].caller
          /\ game'[1].zobbo[1].remaining <= game[1].zobbo[1].remaining]_vars

\* A call_zobbo has just been accepted with zobbo already set and one turn
\* gone since: the count is still 1.
ZobboCallRuleWitness ==
  /\ ret = "Ok"
  /\ ended = "none"
  /\ game[1].stage.kind = "AwaitDraw"
  /\ game[1].discard = <<>>
  /\ game[1].zobbo /= <<>>
  /\ game[1].zobbo[1].remaining = 1

\* A match_top of player pid on an occupied slot of the discard top's rank.
RankMatch(pid, index) ==
  /\ index \in SlotIdx
  /\ Len(game[1].discard) > 0
  /\ game[1].seats[pid].slots[index] /= NoCard
  /\ game[1].seats[pid].slots[index].rank = Last(game[1].discard).rank
  /\ MatchTop(pid, index)

\* C11: successful match.  A match_top on an occupied own slot of the
\* discard top's rank empties the slot, puts its card on the discard pile,
\* raises the slot's version by 1, and leaves active, stage, skip_next and
\* zobbo as they were.
MatchDiscardsCard ==
  [][\A pid \in PlayerIds : \A index \in ClientIdx :
       RankMatch(pid, index) =>
         LET g == game[1]
             h == game'[1]
         IN /\ ret' = "Ok"
            /\ h.seats[pid].slots[index] = NoCard
            /\ h.discard = Append(g.discard, g.seats[pid].slots[index])
            /\ h.seats[pid].versions[index] = g.seats[pid].versions[index] + 1
            /\ h.active = g.active
            /\ h.stage = g.stage
            /\ h.skip_next = g.skip_next
            /\ h.zobbo = g.zobbo]_vars

\* C12: match is an AwaitDraw action.  A match_top submitted while stage is
\* Holding or Power is rejected and changes nothing.
MatchOnlyInAwaitDraw ==
  [][\A pid \in PlayerIds : \A index \in ClientIdx :
       (game[1].stage.kind /= "AwaitDraw" /\ MatchTop(pid, index)) =>
         (ret' = "Err" /\ game' = game)]_vars

\* C13: failed match.  A match_top on an occupied own slot of another rank
\* than the discard top's adds the player to skip_next and changes nothing
\* else; with an empty discard pile, an index out of range or an empty slot
\* it fails and the whole GameState is as it was.
MatchFailure ==
  [][\A pid \in PlayerIds : \A index \in ClientIdx :
       /\ FailedMatch(pid, index) =>
            /\ ret' = "Ok"
            /\ game'[1] = [game[1] EXCEPT !.skip_next = @ \cup {pid}]
       /\ ( /\ \/ Len(game[1].discard) = 0
               \/ index \notin SlotIdx
               \/ game[1].seats[pid].slots[index] = NoCard
            /\ MatchTop(pid, index) ) =>
            (ret' = "Err" /\ game' = game)]_vars

\* The third accepted call of a game has put a player in skip_next: a draw
\* and a discard came first, since a match needs a discard top.
MatchFailureWitness ==
  /\ ret = "Ok"
  /\ calls = 3
  /\ ended = "none"
  /\ game[1].skip_next /= {}
  /\ CardCount(game[1]) = PackSize

\* C14: the Queen swap is all or nothing.  In stage Power with a Queen, the
\* active player's power_swap_with_opp on two occupied slots in range
\* exchanges the two cards, raises both versions by 1 and ends the turn; with
\* an index out of range or an empty slot it fails, and both seats, stage and
\* active are as before the call.
QueenSwapAllOrNothing ==
  [][\A pid \in PlayerIds : \A i \in ClientIdx, j \in ClientIdx :
       LET g == game[1]
           h == game'[1]
           opp == Other(pid)
       IN ( /\ g.active = pid
            /\ g.stage.kind = "Power"
            /\ g.stage.card.rank = Queen
            /\ PowerSwapWithOpp(pid, i, j) ) =>
            IF /\ i \in SlotIdx
               /\ j \in SlotIdx
               /\ g.seats[pid].slots[i] /= NoCard
               /\ g.seats[opp].slots[j] /= NoCard
            THEN /\ ret' = "Ok"
                 /\ h.seats[pid].slots[i] = g.seats[opp].slots[j]
                 /\ h.seats[opp].slots[j] = g.seats[pid].slots[i]
                 /\ h.seats[pid].versions[i] = g.seats[pid].versions[i] + 1
                 /\ h.seats[opp].versions[j] = g.seats[opp].versions[j] + 1
                 /\ \A k \in SlotIdx :
                      /\ k /= i => /\ h.seats[pid].slots[k] = g.seats[pid].slots[k]
                                   /\ h.seats[pid].versions[k] = g.seats[pid].versions[k]
                      /\ k /= j => /\ h.seats[opp].slots[k] = g.seats[opp].slots[k]
                                   /\ h.seats[opp].versions[k] = g.seats[opp].versions[k]
                 /\ ended' /= "none"
                 /\ h.stage.kind = "AwaitDraw"
            ELSE /\ ret' = "Err"
                 /\ h.seats = g.seats
                 /\ h.stage = g.stage
                 /\ h.active = g.active]_vars

\* A call has just failed in stage Power with a Queen, where the active
\* player's slot is occupied and the opponent's is empty: the swap that
\* takes the player's card out and has to put it back.
QueenSwapWitness ==
  /\ ret = "Err"
  /\ game[1].stage.kind = "Power"
  /\ game[1].stage.card.rank = Queen
  /\ game[1].seats[game[1].active].slots[0] /= NoCard
  /\ game[1].seats[Other(game[1].active)].slots[0] = NoCard
  /\ handle_power_swap_with_opp(game[1].active, 0, 0) = {ErrAfter(game[1])}

\* The stage a message's action belongs to ("any": none is required of
\* end_turn; match_top's stage rule is C12's).
StageOf(type) ==
  CASE type \in {"draw_deck", "draw_discard", "call_zobbo"} -> "AwaitDraw"
    [] type \in {"swap_with_hand", "discard_drawn"} -> "Holding"
    [] type \in PowerTypes -> "Power"
    [] OTHER -> "any"

\* The seat and slot index a message aims at.
Targets(pid, msg) ==
  CASE msg.type \in {"swap_with_hand", "match_top", "power_check_own",
                     "power_swap_with_deck"} -> {<<pid, msg.index>>}
    [] msg.type \in {"power_check_opp", "power_opp_swap_with_deck"} ->
         {<<Other(pid), msg.index>>}
    [] msg.type = "power_swap_with_opp" ->
         {<<pid, msg.my_index>>, <<Other(pid), msg.opp_index>>}
    [] OTHER -> {}

\* Message msg of player pid breaks a rule of the game in the current state:
\* wrong turn, wrong stage, an index out of range, an empty target slot or an
\* empty source pile.
RuleViolation(pid, msg) ==
  LET g == game[1]
      t == msg.type
  IN \/ t \notin {"match_top", "call_zobbo"} /\ g.active /= pid
     \/ t = "call_zobbo" /\ g.active = pid
     \/ StageOf(t) /= "any" /\ g.stage.kind /= StageOf(t)
     \/ \E x \in Targets(pid, msg) :
          x[2] \notin SlotIdx \/ g.seats[x[1]].slots[x[2]] = NoCard
     \/ t \in {"draw_discard", "match_top"} /\ Len(g.discard) = 0
     \/ t = "draw_deck" /\ Len(g.deck) = 0 /\ Len(g.discard) <= 1

\* C15: silent rejection.  A game action that breaks a rule leaves the
\* GameState as it was and queues no message to any player.
SilentRejection ==
  [][\A pid \in PlayerIds : \A msg \in ClientMsgs :
       (RuleViolation(pid, msg) /\ Handle(Dispatch(pid, msg))) =>
         (ret' = "Err" /\ game' = game /\ sent' = NoMsgs)]_vars

\* ------------------------------------------- SpecScore: the reveal, any hands
\* A card of every rank, both colours of King, and the empty slot.
ScoreCards ==
  {Card(r, "Spades") : r \in Ranks} \cup {Card(King, "Hearts"), NoCard}

ScoreHands == [0..(ScoreSlots - 1) -> ScoreCards]

\* The game one end_turn_common before the reveal: zobbo at 1.  The piles
\* are left empty; end_turn_common and reveal_and_finish do not read them.
\* One accepted call is explored from here.
InitScore ==
  /\ \E h1 \in ScoreHands, h2 \in ScoreHands :
       /\ \A i \in DOMAIN h1, j \in DOMAIN h2 : h1[i] = NoCard \/ h1[i] /= h2[j]
       /\ \A i \in DOMAIN h1, j \in DOMAIN h1 :
            i /= j => (h1[i] = NoCard \/ h1[i] /= h1[j]) /\ (h2[i] = NoCard \/ h2[i] /= h2[j])
       /\ game = << [ deck |-> <<>>,
                      discard |-> <<>>,
                      seats |-> [p \in PlayerIds |->
                                   [ slots |-> IF p = "p1" THEN h1 ELSE h2,
                                     versions |-> [i \in DOMAIN h1 |-> 0] ]],
                      active |-> "p1",
                      stage |-> [kind |-> "AwaitDraw"],
                      skip_next |-> {},
                      zobbo |-> <<[caller |-> "p2", remaining |-> 1]>> ] >>
  /\ players = ConnectedPlayers
  /\ started = TRUE
  /\ conn = OpenConns
  /\ locks = NoLocks
  /\ ret = "none"
  /\ sent = NoMsgs
  /\ ended = "none"
  /\ calls = MaxCalls - 1

NextScore == \E pid \in PlayerIds : EndTurn(pid)

SpecScore == InitScore /\ [][NextScore]_vars

\* The points of a rank as the scoring law lists them: Ace 1 up to Queen 12
\* by the rank's place in the order, a red King 13, a black King 0.
LawPoints(c) ==
  IF c.rank = King THEN (IF c.suit \in {"Hearts", "Diamonds"} THEN 13 ELSE 0)
  ELSE Cardinality({r \in Ranks : r <= c.rank})

RECURSIVE LawTotal(_, _)
\* The sum of the points of the occupied slots among slots idx of a seat.
LawTotal(seat, idx) ==
  IF idx = {} THEN 0
  ELSE LET i == CHOOSE k \in idx : TRUE
       IN (IF seat.slots[i] = NoCard THEN 0 ELSE LawPoints(seat.slots[i]))
          + LawTotal(seat, idx \ {i})

\* C16: scoring law.  Every game_over a player is queued carries the two
\* seats' totals of rank points over their occupied slots, and as winner the
\* seat with the strictly lower total, or none when the totals are equal.
ScoringLaw ==
  \A p \in PlayerIds : \A k \in 1..Len(sent[p]) :
    sent[p][k].type = "game_over" =>
      LET m == sent[p][k]
          mine == LawTotal(game[1].seats[p], DOMAIN game[1].seats[p].slots)
          theirs == LawTotal(game[1].seats[Other(p)],
                             DOMAIN game[1].seats[Other(p)].slots)
      IN /\ m.your_score = mine
         /\ m.opp_score = theirs
         /\ m.winner = IF mine < theirs THEN <<p>>
                       ELSE IF theirs < mine THEN <<Other(p)>>
                       ELSE <<>>

\* The reveal has run on a hand of a black King and a Queen (12 in all)
\* against a lone red King (13): the first hand wins.
ScoringLawWitness ==
  /\ GameOverQueued(sent)
  /\ game[1].seats["p1"].slots = (0 :> Card(King, "Spades") @@ 1 :> Card(Queen, "Spades"))
  /\ game[1].seats["p2"].slots = (0 :> Card(King, "Hearts") @@ 1 :> NoCard)
  /\ \E k \in 1..Len(sent["p2"]) :
       /\ sent["p2"][k].type = "game_over"
       /\ sent["p2"][k].winner = <<"p1">>

\* Card c where cards a and b have changed places.
Exchange(a, b, c) == IF c = a THEN b ELSE IF c = b THEN a ELSE c

\* GameState g with cards a and b exchanged wherever they are hidden: in the
\* seats, in the deck and in the stage's held card.  Slot occupancy and
\* versions, active, the stage's kind, the discard pile, the pile counts and
\* zobbo are those of g.
Relabel(g, a, b) ==
  [g EXCEPT
     !.deck = [i \in DOMAIN g.deck |-> Exchange(a, b, g.deck[i])],
     !.seats = [p \in DOMAIN g.seats |->
                  [g.seats[p] EXCEPT
                     !.slots = [i \in DOMAIN g.seats[p].slots |->
                                  Exchange(a, b, g.seats[p].slots[i])]]],
     !.stage = IF g.stage.kind = "AwaitDraw" THEN g.stage
               ELSE [g.stage EXCEPT !.card = Exchange(a, b, g.stage.card)]]

\* C17: hidden cards stay hidden in game_update.  compose_update_for gives a
\* player the same GameUpdate for two states that differ only in the rank or
\* suit of seat cards, deck cards or the held card, and the update's slots
\* carry occupancy and version only.
HiddenCardsStayHidden ==
  game /= <<>> =>
    \A p \in PlayerIds :
      LET u == compose_update_for(game[1], p)
      IN /\ \A a \in UNION Packs, b \in UNION Packs :
              compose_update_for(Relabel(game[1], a, b), p) = u
         /\ \A i \in DOMAIN u.you : DOMAIN u.you[i] = {"empty", "version"}
         /\ \A i \in DOMAIN u.opponent : DOMAIN u.opponent[i] = {"empty", "version"}

\* A game_update has just been queued to the player out of turn while the
\* active player holds a drawn card and both seats hold cards of different
\* ranks.
HiddenCardsWitness ==
  /\ ret = "Ok"
  /\ game[1].stage.kind = "Holding"
  /\ LET p == Other(game[1].active)
     IN /\ Len(sent[p]) > 0
        /\ Last(sent[p]) = [type |-> "game_update",
                            update |-> compose_update_for(game[1], p)]
        /\ game[1].seats[p].slots[0] /= NoCard
        /\ game[1].seats[Other(p)].slots[0] /= NoCard
        /\ game[1].seats[p].slots[0].rank /= game[1].seats[Other(p)].slots[0].rank

\* C18: room capacity.  A room never holds more than 2 player records; a
\* join_room that finds 2 records answers "full" and leaves the records as
\* they were; only join_room adds a record and no step removes one.
RoomCapacity ==
  /\ Cardinality(DOMAIN players) <= 2
  /\ [][/\ Cardinality(DOMAIN players') <= 2
        /\ DOMAIN players \subseteq DOMAIN players'
        /\ (DOMAIN players' /= DOMAIN players => JoinRoom)
        /\ (Cardinality(DOMAIN players) >= 2 /\ JoinRoom =>
              players' = players /\ ret' = "Conflict")]_vars

\* A join_room has just been refused by a room of two players, one of them
\* attached and one not.
RoomCapacityWitness ==
  /\ ret = "Conflict"
  /\ Cardinality(DOMAIN players) = 2
  /\ \E p \in DOMAIN players, q \in DOMAIN players :
       players[p].connected /\ ~players[q].connected

\* A connection task enters start_game in this step.
StartGameRuns == \E c \in Conns : conn[c].pc /= "get_both_ids" /\ conn'[c].pc = "get_both_ids"

\* C19: the GameState is created at most once.  start_game is entered only
\* from a room with no GameState, not yet started, whose records are exactly
\* two players both connected and ready; no step that changes an existing
\* GameState is a ready message, and no step removes the GameState or clears
\* the started flag.
GameCreatedOnce ==
  [][/\ StartGameRuns =>
          /\ game = <<>>
          /\ ~started
          /\ Cardinality(DOMAIN players') = 2
          /\ \A p \in DOMAIN players' : players'[p].connected /\ players'[p].ready
     /\ game /= <<>> => game' /= <<>>
     /\ started => started'
     /\ (game /= <<>> /\ game' /= game) => ~ \E c \in Conns : Ready(c)]_vars

\* In a room with a GameState, p1 has left connection 1, attached again on
\* connection 3 and sent ready: both players are connected and ready, and the
\* step sent each of them the lobby alone.
GameCreatedOnceWitness ==
  /\ game /= <<>>
  /\ ret = "Ok"
  /\ conn[1].pc = "closed"
  /\ conn[NumConns] = [pc |-> "open", player |-> "p1"]
  /\ players["p1"].tx = NumConns
  /\ \A p \in PlayerIds :
       /\ players[p].connected /\ players[p].ready
       /\ sent[p] = <<[type |-> "lobby_update", lobby |-> from_room(players)]>>

\* C20: disconnect frame.  In the step that closes an attached connection,
\* that player's connected flag and channel are cleared and nothing else of the
\* room changes: the set of records, every ready flag, the other records,
\* the started flag, the mutexes and the whole GameState stay as they were.
DisconnectFrame ==
  [][\A c \in Conns :
       (conn[c].pc = "open" /\ conn'[c].pc = "closed") =>
          LET pid == conn[c].player
          IN /\ Disconnect(c)
             /\ game' = game
             /\ started' = started
             /\ locks' = locks
             /\ DOMAIN players' = DOMAIN players
             /\ players'[pid] = [players[pid] EXCEPT !.connected = FALSE, !.tx = 0]
             /\ \A p \in DOMAIN players \ {pid} : players'[p] = players[p]]_vars

\* A player's connection has just closed while the other player holds a
\* drawn card: the record is still there, ready but no longer connected, and
\* the other player was sent the lobby.
DisconnectFrameWitness ==
  /\ game /= <<>>
  /\ game[1].stage.kind = "Holding"
  /\ ret = "Ok"
  /\ \E p \in PlayerIds :
       /\ p /= game[1].active
       /\ \A c \in Conns : conn[c].player = p => conn[c].pc = "closed"
       /\ players[p] = [connected |-> FALSE, ready |-> TRUE, tx |-> 0]
       /\ players[Other(p)].connected
       /\ sent[Other(p)] = <<[type |-> "lobby_update", lobby |-> from_room(players)]>>

\* The request names an existing room, its token is one issue_token made for
\* that room, and the token's player has a record in the room.
GateOpen(room_id, token) ==
  /\ room_id \in Rooms
  /\ \E p \in DOMAIN players : token = issue_token(room_id, p)

\* C21: connection gate.  ws_handler answers Ok exactly for a request whose
\* token is an issued one (two parts, the second the HMAC of the first) for
\* the room of the path, an existing room, and a known player, and then
\* starts handle_socket for that player; verify_token gives back the room
\* and player issue_token signed; a refused request changes no player record
\* and no connection, and a connection attaches only in a step answered Ok.
ConnectionGate ==
  /\ [](/\ \A r \in RoomIds, p \in Uuids :
             verify_token(issue_token(r, p)) = <<[room |-> r, player |-> p]>>
        /\ \A room_id \in RoomIds, token \in Tokens :
             LET h == ws_handler(players, room_id, token)
             IN IF GateOpen(room_id, token)
                THEN h.ret = "Ok" /\ token = issue_token(room_id, h.player)
                ELSE h.ret \in {"Unauthorized", "NotFound"})
  /\ [][/\ ret' \in {"Unauthorized", "NotFound"} => players' = players /\ conn' = conn
        /\ \A c \in Conns :
             (conn[c].pc = "closed" /\ conn'[c].pc = "open") =>
                /\ ret' = "Ok"
                /\ conn'[c].player \in DOMAIN players
                /\ players'[conn'[c].player].connected
                /\ players'[conn'[c].player].tx = c]_vars

\* A request has just been refused with 401 in a room of two players, one
\* attached and the other not.
ConnectionGateWitness ==
  /\ ret = "Unauthorized"
  /\ \E p \in DOMAIN players, q \in DOMAIN players :
       /\ players[p].connected /\ players[p].tx /= 0
       /\ ~players[q].connected /\ players[q].tx = 0

\* The game_over messages queued to player p in the last step.
GameOvers(p) == {k \in 1..Len(sent[p]) : sent[p][k].type = "game_over"}

\* C22: consistent game_over.  The game_over messages one reveal queues to
\* the two players mirror each other: each one's your_score and you_cards are
\* the other's opp_score and opp_cards, both name the same winner, the winner
\* is the player whose total is lower (none when equal), and the cards are
\* those of the seats of the one GameState.
ConsistentGameOver ==
  \A p \in PlayerIds : \A k \in GameOvers(p) : \A j \in GameOvers(Other(p)) :
    LET m == sent[p][k]
        o == sent[Other(p)][j]
    IN /\ m.your_score = o.opp_score
       /\ m.you_cards = o.opp_cards
       /\ m.winner = o.winner
       /\ m.winner = IF m.your_score < m.opp_score THEN <<p>>
                     ELSE IF o.your_score < o.opp_score THEN <<Other(p)>>
                     ELSE <<>>
       /\ Len(m.you_cards) = Cardinality({i \in DOMAIN game[1].seats[p].slots :
                                           game[1].seats[p].slots[i] /= NoCard})
       /\ \A n \in 1..Len(m.you_cards) :
            \E i \in DOMAIN game[1].seats[p].slots :
              /\ game[1].seats[p].slots[i] /= NoCard
              /\ m.you_cards[n] = card_public_full(game[1].seats[p].slots[i])

\* The reveal has queued a game_over to both players, for hands of one and
\* of two cards and different totals.
ConsistentGameOverWitness ==
  /\ \A p \in PlayerIds : GameOvers(p) /= {}
  /\ \E k \in GameOvers("p1") :
       /\ Len(sent["p1"][k].you_cards) = 1
       /\ Len(sent["p1"][k].opp_cards) = 2
       /\ sent["p1"][k].your_score > sent["p1"][k].opp_score
       /\ sent["p1"][k].winner = <<"p2">>

\* The cards of a GameState's deck and seats, one entry per place.
DealtPlaces(g) ==
  {<<"deck", i>> : i \in DOMAIN g.deck} \cup
  UNION {{<<p, i>> : i \in DOMAIN g.seats[p].slots} : p \in PlayerIds}

DealtCard(g, x) == IF x[1] = "deck" THEN g.deck[x[2]] ELSE g.seats[x[1]].slots[x[2]]

\* C23: start_game postcondition.  Right after start_game the deck holds 40
\* cards, the discard pile is empty, each of the two seats holds 6 occupied
\* slots with versions 0, the 52 cards of deck and seats are pairwise
\* distinct, stage is AwaitDraw, skip_next is empty, zobbo is unset, and
\* active is the starting player start_game was called with.
StartGamePost ==
  /\ [](game /= <<>> =>
          LET g == game[1]
          IN /\ Len(g.deck) = 40
             /\ g.discard = <<>>
             /\ DOMAIN g.seats = PlayerIds
             /\ \A p \in PlayerIds :
                  /\ DOMAIN g.seats[p].slots = 0..5
                  /\ DOMAIN g.seats[p].versions = 0..5
                  /\ \A i \in 0..5 : g.seats[p].slots[i] /= NoCard /\ g.seats[p].versions[i] = 0
             /\ Cardinality(DealtPlaces(g)) = 52
             /\ Cardinality({DealtCard(g, x) : x \in DealtPlaces(g)}) = 52
             /\ g.stage = [kind |-> "AwaitDraw"]
             /\ g.skip_next = {}
             /\ g.zobbo = <<>>)
  /\ [][\A starting \in PlayerIds : StartGame(starting) => game'[1].active = starting]_vars

\* start_game has dealt from a cut deck: p2 starts, and p1 holds the Five of
\* clubs in slot 0.
StartGamePostWitness ==
  /\ game /= <<>>
  /\ ret = "Ok"
  /\ game[1].active = "p2"
  /\ Len(game[1].deck) > 2 * NumSlots
  /\ game[1].seats["p1"].slots[0] = Card(Five, "Clubs")

\* The draw of pid is its turn's first action.
CanDraw(pid) == game[1].active = pid /\ game[1].stage.kind = "AwaitDraw"

\* C24: draw.  In AwaitDraw the active player's draw_deck takes the deck's
\* top card into Holding{card, Deck}; on an empty deck with more than one
\* discard card the discard pile keeps its top alone, the rest becomes the
\* deck and the draw proceeds; draw_discard takes the discard top into
\* Holding{card, Discard}; a draw from an empty source (deck empty with at
\* most one discard card, or empty discard pile) fails and changes nothing.
DrawRule ==
  [][\A pid \in PlayerIds :
       LET g == game[1]
           h == game'[1]
       IN /\ (CanDraw(pid) /\ Len(g.deck) > 0 /\ DrawDeck(pid)) =>
               /\ ret' = "Ok"
               /\ h.stage = [kind |-> "Holding", card |-> Last(g.deck), from |-> "Deck"]
               /\ h.deck = Front(g.deck)
               /\ h.discard = g.discard
          /\ (CanDraw(pid) /\ Len(g.deck) = 0 /\ Len(g.discard) > 1 /\ DrawDeck(pid)) =>
               /\ ret' = "Ok"
               /\ h.discard = <<Last(g.discard)>>
               /\ h.stage.kind = "Holding" /\ h.stage.from = "Deck"
               /\ Len(h.deck) = Len(g.discard) - 2
               /\ Range(h.deck) \cup {h.stage.card} = Range(Front(g.discard))
          /\ (CanDraw(pid) /\ Len(g.deck) = 0 /\ Len(g.discard) <= 1 /\ DrawDeck(pid)) =>
               ret' = "Err" /\ game' = game
          /\ (CanDraw(pid) /\ Len(g.discard) > 0 /\ DrawDiscard(pid)) =>
               /\ ret' = "Ok"
               /\ h.stage = [kind |-> "Holding", card |-> Last(g.discard), from |-> "Discard"]
               /\ h.discard = Front(g.discard)
               /\ h.deck = g.deck
          /\ (CanDraw(pid) /\ Len(g.discard) = 0 /\ DrawDiscard(pid)) =>
               ret' = "Err" /\ game' = game]_vars

\* A draw_deck has recycled a discard pile of three: the player holds a card
\* that lay under the top, the other such card is the deck, and the pile keeps
\* its top.
DrawRuleWitness ==
  /\ ret = "Ok"
  /\ game[1].stage.kind = "Holding"
  /\ game[1].stage.from = "Deck"
  /\ game[1].stage.card \in DiscardSide
  /\ Len(game[1].deck) = 1
  /\ Len(game[1].discard) = 1
  /\ Range(game[1].deck) \cup Range(game[1].discard) \cup {game[1].stage.card} = DiscardSide

\* The zobbo countdown after one end_turn_common on countdown z.
CountedDown(z) ==
  IF z = <<>> THEN <<>>
  ELSE <<[z[1] EXCEPT !.remaining = IF z[1].remaining > 0 THEN z[1].remaining - 1 ELSE 0]>>

\* C25: swap with hand.  In Holding the active player's swap_with_hand on an
\* occupied slot in range puts the held card in the slot, pushes the replaced
\* card on the discard pile, raises the slot's version by 1, leaves stage
\* AwaitDraw whatever the ranks, and runs end_turn_common once; on a slot
\* out of range or empty it fails and the GameState, with its Holding stage,
\* is unchanged.
SwapWithHandRule ==
  [][\A pid \in PlayerIds : \A index \in ClientIdx :
       (game[1].active = pid /\ game[1].stage.kind = "Holding"
          /\ SwapWithHand(pid, index)) =>
         LET g == game[1]
             h == game'[1]
         IN IF index \in SlotIdx /\ g.seats[pid].slots[index] /= NoCard
            THEN /\ ret' = "Ok"
                 /\ h.seats[pid].slots = [g.seats[pid].slots EXCEPT ![index] = g.stage.card]
                 /\ h.seats[pid].versions =
                      [g.seats[pid].versions EXCEPT ![index] = @ + 1]
                 /\ h.seats[Other(pid)] = g.seats[Other(pid)]
                 /\ h.discard = Append(g.discard, g.seats[pid].slots[index])
                 /\ h.deck = g.deck
                 /\ h.stage = [kind |-> "AwaitDraw"]
                 /\ ended' \in {"next", "skip"}
                 /\ h.zobbo = CountedDown(g.zobbo)
            ELSE ret' = "Err" /\ game' = game]_vars

\* The first turn's swap has put a drawn Jack in a slot: the turn is over,
\* the stage is AwaitDraw and the replaced card is the discard pile.
SwapWithHandWitness ==
  /\ ret = "Ok"
  /\ calls = 2
  /\ ended = "next"
  /\ game[1].stage.kind = "AwaitDraw"
  /\ Len(game[1].discard) = 1
  /\ \E p \in PlayerIds :
       /\ game[1].active = Other(p)
       /\ game[1].seats[p].slots[0] = Card(Jack, "Clubs")
       /\ game[1].seats[p].versions[0] = 1

\* C26: Jack swap with deck.  In Power{Jack} the active player's
\* power_swap_with_deck on an occupied own slot, with cards in the deck, puts
\* the deck's top card in the slot, returns the slot's card to the deck,
\* raises the slot's version by 1 and ends the turn with the opponent's seat
\* unchanged; with an empty deck the slot, its version and both piles are
\* unchanged and the turn still ends.
JackSwapWithDeck ==
  [][\A pid \in PlayerIds : \A index \in SlotIdx :
       (/\ game[1].active = pid
        /\ game[1].stage.kind = "Power"
        /\ game[1].stage.card.rank = Jack
        /\ game[1].seats[pid].slots[index] /= NoCard
        /\ PowerSwapWithDeck(pid, index)) =>
         LET g == game[1]
             h == game'[1]
         IN /\ ret' = "Ok"
            /\ ended' \in {"next", "skip"}
            /\ h.stage = [kind |-> "AwaitDraw"]
            /\ h.seats[Other(pid)] = g.seats[Other(pid)]
            /\ h.discard = g.discard
            /\ IF Len(g.deck) > 0
               THEN /\ h.seats[pid].slots = [g.seats[pid].slots EXCEPT ![index] = Last(g.deck)]
                    /\ h.seats[pid].versions = [g.seats[pid].versions EXCEPT ![index] = @ + 1]
                    /\ h.deck = Append(Front(g.deck), g.seats[pid].slots[index])
               ELSE /\ h.seats[pid] = g.seats[pid]
                    /\ h.deck = g.deck]_vars

\* The peek_result messages among msgs.
Peeks(msgs) == {k \in 1..Len(msgs) : msgs[k].type = "peek_result"}

\* C27: peek powers.  A step that queues a peek_result queues exactly one,
\* to the active player in a Power stage on a Five to Eight (target self) or
\* a Nine or Ten (target opponent) and none to the opponent, with the card of
\* the slot peeked and the GameState unchanged; and the player was not queued
\* a peek_result by the step before, the turn having ended with the first.
PeekPowers ==
  [][\A pid \in PlayerIds :
       Peeks(sent'[pid]) /= {} =>
         LET g == game[1]
             m == sent'[pid][CHOOSE k \in Peeks(sent'[pid]) : TRUE]
         IN /\ Cardinality(Peeks(sent'[pid])) = 1
            /\ Peeks(sent'[Other(pid)]) = {}
            /\ game' = game
            /\ g.active = pid
            /\ g.stage.kind = "Power"
            /\ m.index \in SlotIdx
            /\ IF m.target = "self"
               THEN /\ g.stage.card.rank \in Five..Eight
                    /\ g.seats[pid].slots[m.index] /= NoCard
                    /\ m.card = card_public(g.seats[pid].slots[m.index])
               ELSE /\ m.target = "opponent"
                    /\ g.stage.card.rank \in Nine..Ten
                    /\ g.seats[Other(pid)].slots[m.index] /= NoCard
                    /\ m.card = card_public(g.seats[Other(pid)].slots[m.index])
            /\ Peeks(sent[pid]) = {}]_vars

\* C28: slot versions.  In every step each slot's version stays or goes up
\* by exactly 1, and goes up only if the slot's content changes in the step;
\* a rejected action, a failed match and a deck swap that found no card to
\* draw leave every version as it was.
SlotVersions ==
  [][game /= <<>> =>
       LET g == game[1]
           h == game'[1]
       IN /\ \A p \in PlayerIds : \A i \in SlotIdx :
               /\ h.seats[p].versions[i] \in {g.seats[p].versions[i], g.seats[p].versions[i] + 1}
               /\ h.seats[p].versions[i] /= g.seats[p].versions[i] =>
                    h.seats[p].slots[i] /= g.seats[p].slots[i]
          /\ (\/ ret' = "Err"
              \/ h.skip_next \ g.skip_next /= {}
              \/ h.seats = g.seats) =>
               \A p \in PlayerIds : h.seats[p].versions = g.seats[p].versions]_vars

\* A deck swap has just found the deck empty under a lone Jack or red King
\* and restored the slot it took: the turn has passed on, and the slot of the
\* player now to act is occupied with its version still 0.  (Two updates
\* were queued to each player: the handler's and end_turn_common's.)
SlotVersionsWitness ==
  /\ ret = "Ok"
  /\ ended = "next"
  /\ game[1].deck = <<>>
  /\ Len(game[1].discard) = 1
  /\ game[1].discard[1].rank \in {Jack, King}
  /\ game[1].discard[1] /= Card(King, "Spades")
  /\ calls = 5
  /\ \A p \in PlayerIds : Len(sent[p]) = 2
  /\ \E p \in PlayerIds :
       /\ game[1].seats[p].slots[0] /= NoCard
       /\ game[1].seats[p].versions[0] = 0
       /\ game[1].seats[Other(p)].versions[0] = 0
       /\ game[1].seats[Other(p)].slots[0] /= NoCard

\* The cards of a GameState place by place: deck, discard pile, occupied
\* slots and the card held in Holding.
PlacedCards(g) ==
  [deck |-> Range(g.deck), discard |-> Range(g.discard),
   seats |-> {g.seats[x[1]].slots[x[2]] : x \in OccupiedSlots(g)},
   held |-> IF g.stage.kind = "Holding" THEN {g.stage.card} ELSE {}]

\* C29: no card is duplicated and the stage card is accounted for.  No card
\* lies twice in the deck, the discard pile, the seat slots and the hand of
\* Holding taken together; the card of Holding is in none of deck, discard
\* pile and seats; the card of Power is in the discard pile.
NoDuplicateCards ==
  game /= <<>> =>
    LET g == game[1]
        c == PlacedCards(g)
    IN /\ Len(g.deck) + Len(g.discard) + Cardinality(OccupiedSlots(g)) + Cardinality(c.held)
            = Cardinality(c.deck \cup c.discard \cup c.seats \cup c.held)
       /\ g.stage.kind = "Holding" => g.stage.card \notin c.deck \cup c.discard \cup c.seats
       /\ g.stage.kind = "Power" => g.stage.card \in c.discard

\* A player holds the one card of the discard pile, drawn after a slot was
\* matched away on it.
NoDuplicateCardsWitness ==
  /\ game[1].stage.kind = "Holding"
  /\ game[1].stage.from = "Discard"
  /\ game[1].discard = <<>>
  /\ Cardinality(OccupiedSlots(game[1])) = 1

\* The places in msgs of the messages of one type.
Places(msgs, type) == {k \in 1..Len(msgs) : msgs[k].type = type}

\* msgs, queued to player p, is a game start in order: one game_start, before
\* every game_update and every peek_result, and the peek_result messages are
\* those of p's own occupied slots 0, 1 and 2 with the cards in them.
StartSequence(p, msgs) ==
  /\ Cardinality(Places(msgs, "game_start")) = 1
  /\ Places(msgs, "game_update") /= {}
  /\ \A s \in Places(msgs, "game_start") :
       \A k \in Places(msgs, "game_update") \cup Places(msgs, "peek_result") : s < k
  /\ game /= <<>>
  /\ \A k \in Places(msgs, "peek_result") :
       /\ msgs[k].target = "self"
       /\ msgs[k].index \in 0..2 \cap DOMAIN game[1].seats[p].slots
       /\ msgs[k].card = card_public(game[1].seats[p].slots[msgs[k].index])
  /\ \A i \in 0..2 \cap DOMAIN game[1].seats[p].slots :
       \E k \in Places(msgs, "peek_result") : msgs[k].index = i

\* C30: message order per player.  Whatever a step queues to a player with
\* a game_start in it is a game start in order, and once the room has
\* started, each player is queued such a game start.
MessageOrder ==
  /\ [](\A p \in Uuids : Places(sent[p], "game_start") /= {} => StartSequence(p, sent[p]))
  /\ (started ~> (\A p \in DOMAIN players : StartSequence(p, sent[p])))

\* C31: the held card is never dropped.  In every step that takes the stage
\* out of Holding, the card that was held is afterwards in a seat slot or on
\* the discard pile.
HeldCardKept ==
  [][(game /= <<>> /\ game[1].stage.kind = "Holding" /\ game'[1].stage.kind /= "Holding") =>
       LET c == PlacedCards(game'[1])
       IN game[1].stage.card \in c.seats \cup c.discard]_vars

\* C32: reconnect does not lose the live channel.  In the step that closes
\* a connection whose player has meanwhile attached a newer connection, still
\* open and holding the record's channel, the record stays connected and
\* keeps that channel.
ReconnectKeepsChannel ==
  [][\A c \in Conns, d \in Conns :
       (/\ c /= d
        /\ conn[c].pc = "open" /\ conn'[c].pc = "closed"
        /\ conn[d].pc = "open" /\ conn[d].player = conn[c].player
        /\ players[conn[c].player].tx = d) =>
         /\ players'[conn[c].player].connected
         /\ players'[conn[c].player].tx = d]_vars

\* The Zobbo countdown has reached 0: reveal_and_finish has run.
GameIsOver == game /= <<>> /\ game[1].zobbo /= <<>> /\ game[1].zobbo[1].remaining = 0

\* C33: game over is terminal.  Once the Zobbo countdown is at 0 no step
\* changes the GameState and no step queues a game_update or a game_over.
GameOverTerminal ==
  [][GameIsOver =>
       /\ game' = game
       /\ \A p \in PlayerIds :
            ~HasMsg(sent'[p], "game_update") /\ ~HasMsg(sent'[p], "game_over")]_vars

\* C34: views converge.  The update a broadcast_game_update has composed
\* for a player is the projection of the GameState its first update was
\* composed from, and when no handler is under way the newest game_update
\* queued to each connected player is the projection of the GameState.
ViewsConverge ==
  /\ \A c \in Conns :
       conn[c].upd /= <<>> =>
         conn[c].upd[1] = compose_update_for(conn[c].snap[1], Head(conn[c].todo))
  /\ (\A c \in Conns : conn[c].pc \in {"open", "closed"}) =>
       \A p \in DOMAIN players :
         \A k \in Places(sent[p], "game_update") :
           sent[p][k].update = compose_update_for(game[1], p)

\* ---- The turn can always be ended ----
\* The handlers run whole, as in Spec.  end_turn is a message the client may
\* send at any time, any number of times, so the bound is on the other
\* messages only.
MaxTurnCalls == 3

InitTurn == Init

\* handle_end_turn accepting only in AwaitDraw.
TurnEnd_await_draw(pid) ==
  \E o \in handle_end_turn(pid) :
    IF o.ret = "Err" \/ o.g.stage.kind /= "AwaitDraw" THEN Reject(Err)
    ELSE LET e == end_turn_common(o.out, o.g)
         IN /\ game' = <<e.g>>
            /\ ret' = "Ok"
            /\ sent' = e.out
            /\ ended' = e.turn
            /\ UNCHANGED <<calls, roomVars>>

\* One end_turn message: handle_end_turn and the end_turn_common it calls.
TurnEnd(pid) ==
  \E o \in handle_end_turn(pid) :
    IF o.ret = "Err" THEN Reject(o)
    ELSE LET e == end_turn_common(o.out, o.g)
         IN /\ game' = <<e.g>>
            /\ ret' = "Ok"
            /\ sent' = e.out
            /\ ended' = e.turn
            /\ UNCHANGED <<calls, roomVars>>

\* A message other than end_turn.
OtherMessage(pid) ==
  /\ calls < MaxTurnCalls
  /\ \/ DrawDeck(pid)
     \/ DrawDiscard(pid)
     \/ \E index \in ClientIdx : SwapWithHand(pid, index)
     \/ DiscardDrawn(pid)
     \/ \E index \in ClientIdx : MatchTop(pid, index)
     \/ CallZobbo(pid)
     \/ \E index \in ClientIdx : PowerCheckOwn(pid, index)
     \/ \E index \in ClientIdx : PowerCheckOpp(pid, index)
     \/ \E index \in ClientIdx : PowerSwapWithDeck(pid, index)
     \/ \E my_index, opp_index \in ClientIdx : PowerSwapWithOpp(pid, my_index, opp_index)
     \/ \E opp_index \in ClientIdx : PowerOppSwapWithDeck(pid, opp_index)

NextTurn ==
  \E pid \in PlayerIds :
    \/ OtherMessage(pid)
    \/ TurnEnd(pid)

SpecTurn == InitTurn /\ [][NextTurn]_vars

\* An end_turn that the server accepts.
AcceptedTurnEnd ==
  /\ ret' = "Ok"
  /\ calls' = calls
  /\ \E pid \in PlayerIds : TurnEnd(pid)

\* The turn-ending message is not withheld for ever while it would be
\* accepted.
SpecTurnLive == SpecTurn /\ WF_vars(AcceptedTurnEnd)

ZobboCalled == game /= <<>> /\ game[1].zobbo /= <<>>

GameOverDelivered ==
  /\ GameIsOver
  /\ \A p \in PlayerIds : players[p].tx /= 0 => HasMsg(sent[p], "game_over")

\* C35: in every state of a started game, whatever the stage, the piles and
\* the slots, an end_turn of the active player is accepted and ends the turn;
\* and when end_turn is not withheld for ever, a game in which Zobbo has been
\* called reaches remaining = 0 with game_over queued to every connected
\* player.
TurnCanAdvance ==
  /\ [](game /= <<>> => ENABLED AcceptedTurnEnd)
  /\ (ZobboCalled ~> GameOverDelivered)

\* The other messages have used up their bound, the last of them left a
\* Power stage behind, and the game is over with game_over queued to both.
TurnAdvancedToEnd ==
  /\ GameOverDelivered
  /\ calls = MaxTurnCalls
  /\ game[1].discard /= <<>>
  /\ \A p \in PlayerIds : players[p].tx /= 0 /\ Len(sent[p]) = 2

====
